---- MODULE Spec2Model ----
(***************************************************************************)
(* Football America 2025: the turn-based game-state machine of main.ts     *)
(* (updateGameState, switchPossession, restoreGameFromHistory,             *)
(* updateGameStateFromReplay), the play handler that drives it, the        *)
(* persisted play log (GameHistoryService) and the playback engine of      *)
(* Game.ts.                                                                *)
(***************************************************************************)
EXTENDS Integers, Sequences, FiniteSets, TLC

(***************************************************************************)
(* Bounds of the model.                                                    *)
(***************************************************************************)
\* touchdowns each side may score before the machine stops accepting more
MaxTouchdowns == 1
\* plays in the log of the live-play specification: two quarters of 15-second
\* plays and one play more
MaxLive == 41
\* plays that may be confirmed in a run of the play-handler specification: four
\* quarters of 15-second plays and one play more
MaxPlays == 81
\* plays of a long run that may be other than a persisted incompletion
MaxVaried == 1
\* plays that may be confirmed in a run of the application specification
MaxAppPlays == 2
\* play handlers that may be in flight at once
MaxInFlight == 2
\* largest tick of an input keyframe
MaxTick == 3
\* keyframes in one input of expandKeyframes
MaxKeyframes == 3
\* largest heading handed to lerpAngle, in tens of degrees
MaxHeadingTens == 54
\* longest ball path of a waypoint play
MaxBallPath == 4
\* most waypoints of one actor of a waypoint play
MaxWaypoints == 4
\* most actors of a waypoint play
MaxActors == 2
\* most actors of a play handed to the codec
MaxCodecActors == 2
\* keyframes of a model answer handed to the sanitizer
MaxSanitizeKeyframes == 2
\* longest elapsed time of a waypoint play, in tenths of a second
MaxElapsedTenths == 20

(***************************************************************************)
(* Inputs.                                                                 *)
(***************************************************************************)
Outcomes == {"touchdown", "tackle", "incomplete", "interception", "turnover"}
\* yardsGained values: a loss, no gain, a gain of ten, a long gain
YardsChoices == {-10, 0, 10, 80}
\* elapsed seconds of a play (0: the result carries none)
ElapsedChoices == {0, 150, 300}

(***************************************************************************)
(* MatchState.                                                             *)
(***************************************************************************)
InitialGameState ==
  [down |-> 1, yardsToGo |-> 10, ballPosition |-> 50,
   homeScore |-> 0, awayScore |-> 0, possession |-> "home",
   quarter |-> 1, timeRemaining |-> 300]

Other(p) == IF p = "home" THEN "away" ELSE "home"

Max(a, b) == IF a >= b THEN a ELSE b
Min(a, b) == IF a <= b THEN a ELSE b
\* Math.max(1, Math.min(99, x))
\* the bounds check left out
ClampField_Identity(x) == x

\* Math.max(1, Math.min(99, x))
ClampField(x) == Max(1, Min(99, x))

\* switchPossession with the turnover branch leaving the ball where it was
switchPossession_NoMirror(gs, afterKickoff) ==
  LET pos == IF afterKickoff THEN 25 ELSE gs.ballPosition
  IN [gs EXCEPT !.possession = Other(gs.possession),
                !.ballPosition = pos,
                !.down = 1,
                !.yardsToGo = 10]

\* switchPossession(afterKickoff)
switchPossession(gs, afterKickoff) ==
  LET pos == IF afterKickoff THEN 25 ELSE ClampField(100 - gs.ballPosition)
  IN [gs EXCEPT !.possession = Other(gs.possession),
                !.ballPosition = pos,
                !.down = 1,
                !.yardsToGo = 10]

\* the clock part with the deduction of the elapsed time left out
clockStep_NoDeduction(gs, timeElapsed) ==
  IF gs.timeRemaining <= 0
  THEN IF gs.quarter < 4
       THEN LET g2 == [gs EXCEPT !.quarter = @ + 1, !.timeRemaining = 300]
            IN [gs |-> IF g2.quarter = 3 THEN switchPossession(g2, TRUE) ELSE g2,
                returned |-> FALSE]
       ELSE [gs |-> [gs EXCEPT !.quarter = 5, !.timeRemaining = 0],
             returned |-> TRUE]
  ELSE [gs |-> gs, returned |-> FALSE]

\* the clock part with the time left over from the expired quarter taken off
\* the next one
clockStep_CarriesLeftover(gs, timeElapsed) ==
  LET g1 == [gs EXCEPT !.timeRemaining = @ - timeElapsed]
  IN IF g1.timeRemaining <= 0
     THEN IF g1.quarter < 4
          THEN LET g2 == [g1 EXCEPT !.quarter = @ + 1, !.timeRemaining = 300 + @]
               IN [gs |-> IF g2.quarter = 3 THEN switchPossession(g2, TRUE) ELSE g2,
                   returned |-> FALSE]
          ELSE [gs |-> [g1 EXCEPT !.quarter = 5, !.timeRemaining = 0],
                returned |-> TRUE]
     ELSE [gs |-> g1, returned |-> FALSE]

\* the clock part with the game-over branch leaving the clock where the play
\* ran it to
clockStep_NoClockReset(gs, timeElapsed) ==
  LET g1 == [gs EXCEPT !.timeRemaining = @ - timeElapsed]
  IN IF g1.timeRemaining <= 0
     THEN IF g1.quarter < 4
          THEN LET g2 == [g1 EXCEPT !.quarter = @ + 1, !.timeRemaining = 300]
               IN [gs |-> IF g2.quarter = 3 THEN switchPossession(g2, TRUE) ELSE g2,
                   returned |-> FALSE]
          ELSE [gs |-> [g1 EXCEPT !.quarter = 5],
                returned |-> TRUE]
     ELSE [gs |-> g1, returned |-> FALSE]

\* the clock part of updateGameState: the state after it, and whether the
\* function returned there (game over)
clockStep(gs, timeElapsed) ==
  LET g1 == [gs EXCEPT !.timeRemaining = @ - timeElapsed]
  IN IF g1.timeRemaining <= 0
     THEN IF g1.quarter < 4
          THEN LET g2 == [g1 EXCEPT !.quarter = @ + 1, !.timeRemaining = 300]
               IN [gs |-> IF g2.quarter = 3 THEN switchPossession(g2, TRUE) ELSE g2,
                   returned |-> FALSE]
          ELSE [gs |-> [g1 EXCEPT !.quarter = 5, !.timeRemaining = 0],
                returned |-> TRUE]
     ELSE [gs |-> g1, returned |-> FALSE]

\* the goal-line check left out
promoteOutcome_Never(gs, yardsGained, outcome) == outcome

\* the goal-line check: the outcome the rest of the transition works with
promoteOutcome(gs, yardsGained, outcome) ==
  IF gs.ballPosition + yardsGained >= 100
     /\ outcome # "interception" /\ outcome # "turnover" /\ outcome # "incomplete"
  THEN "touchdown"
  ELSE outcome

\* the touchdown branch without the extra point
scoreTouchdown_SixPoints(gs) ==
  IF gs.possession = "home"
  THEN [gs EXCEPT !.homeScore = @ + 6]
  ELSE [gs EXCEPT !.awayScore = @ + 6]

\* the touchdown branch: 7 points to the side in possession
scoreTouchdown(gs) ==
  IF gs.possession = "home"
  THEN [gs EXCEPT !.homeScore = @ + 7]
  ELSE [gs EXCEPT !.awayScore = @ + 7]

\* normal play progression without the turnover on downs
normalPlay_NoTurnoverOnDowns(gs, yardsGained) ==
  LET moved == [gs EXCEPT !.ballPosition = ClampField(@ + yardsGained)]
  IN IF yardsGained >= moved.yardsToGo
     THEN [moved EXCEPT !.down = 1, !.yardsToGo = 10]
     ELSE [moved EXCEPT !.yardsToGo = @ - yardsGained, !.down = @ + 1]

\* normal play progression
normalPlay(gs, yardsGained) ==
  LET moved == [gs EXCEPT !.ballPosition = ClampField(@ + yardsGained)]
  IN IF yardsGained >= moved.yardsToGo
     THEN [moved EXCEPT !.down = 1, !.yardsToGo = 10]
     ELSE LET g == [moved EXCEPT !.yardsToGo = @ - yardsGained, !.down = @ + 1]
          IN IF g.down > 4 THEN switchPossession(g, FALSE) ELSE g

\* the part of updateGameState after the clock
applyOutcome(gs, yardsGained, outcome) ==
  LET effectiveOutcome == promoteOutcome(gs, yardsGained, outcome)
  IN IF effectiveOutcome = "touchdown"
     THEN switchPossession(scoreTouchdown(gs), TRUE)
     ELSE IF effectiveOutcome = "interception" \/ effectiveOutcome = "turnover"
     THEN switchPossession(gs, FALSE)
     ELSE normalPlay(gs, yardsGained)

\* updateGameState without the return of the game-over branch
updateGameState_NoReturnAtGameOver(gs, yardsGained, outcome, timeElapsed) ==
  LET c == clockStep(gs, timeElapsed)
  IN applyOutcome(c.gs, yardsGained, outcome)

\* updateGameState(yardsGained, outcome, timeElapsed)
updateGameState(gs, yardsGained, outcome, timeElapsed) ==
  LET c == clockStep(gs, timeElapsed)
  IN IF c.returned THEN c.gs ELSE applyOutcome(c.gs, yardsGained, outcome)

(***************************************************************************)
(* Play results and the persisted play log.                                *)
(***************************************************************************)
\* what the yards pattern finds in a summary: whether /(\d+)\s*yard/i
\* matches, the number matched, and whether the text says "loss" or "behind"
NoYardsInSummary == [match |-> FALSE, yards |-> 0, loss |-> FALSE]
Summaries ==
  {[match |-> TRUE, yards |-> 10, loss |-> FALSE],
   [match |-> TRUE, yards |-> 10, loss |-> TRUE],
   [match |-> TRUE, yards |-> 0, loss |-> FALSE],
   [match |-> TRUE, yards |-> 80, loss |-> FALSE],
   NoYardsInSummary}

\* tick of the last frame of a result that has frames
LastTick == 2
\* frames.length = 0 is written as lastTick = NoFrames
NoFrames == -1

\* simulatePlay builds its result from outcome, summary and frames only: the
\* result carries no timeElapsed, which is written as 0
NoTimeElapsed == 0

\* the routine play: an incompletion with frames
Routine ==
  [outcome |-> "incomplete", summary |-> NoYardsInSummary,
   timeElapsed |-> NoTimeElapsed, lastTick |-> LastTick]

\* results of the model call in the live-play specification
LiveResults ==
  [outcome : Outcomes, summary : Summaries,
   timeElapsed : {NoTimeElapsed}, lastTick : {LastTick}]

\* Math.floor(Math.random() * 8) + 1
RandomTackleYards == 1..8

\* calculateYardsGained(result); rnd is the random draw of the tackle default
calculateYardsGained(result, gs, rnd) ==
  IF result.summary.match
  THEN IF result.summary.loss THEN 0 - result.summary.yards ELSE result.summary.yards
  ELSE CASE result.outcome = "touchdown" -> Max(100 - gs.ballPosition, 10)
         [] result.outcome = "tackle" -> rnd
         [] OTHER -> 0

\* result.timeElapsed || 15
effectiveTimeElapsed(result) ==
  IF result.timeElapsed = NoTimeElapsed THEN 15 ELSE result.timeElapsed

\* the synchronous part of the play handler that follows the model call:
\* yards, goal-line check on the result, updateGameState, and the entry handed
\* to gameHistoryService.addEntry
applyResult(gs, result, rnd) ==
  LET yardsGained == calculateYardsGained(result, gs, rnd)
      timeElapsed == effectiveTimeElapsed(result)
      effectiveOutcome == promoteOutcome(gs, yardsGained, result.outcome)
      stored == [result EXCEPT !.outcome = effectiveOutcome]
      after == updateGameState(gs, yardsGained, effectiveOutcome, timeElapsed)
  IN [gs |-> after,
      entry |-> [result |-> stored, gameState |-> after, yardsGained |-> yardsGained]]

\* calculateYardsGainedFromEntry(entry): entries written by the play handler
\* always carry yardsGained
calculateYardsGainedFromEntry(entry) == entry.yardsGained

\* the body of the for loop of restoreGameFromHistory, from entry i on
RECURSIVE restoreLoop(_, _, _)
restoreLoop(gs, entries, i) ==
  IF i > Len(entries) THEN gs
  ELSE
    LET entry == entries[i]
        yardsGained == calculateYardsGainedFromEntry(entry)
        outcome == entry.result.outcome
        timeElapsed == effectiveTimeElapsed(entry.result)
        g1 == [gs EXCEPT !.timeRemaining = @ - timeElapsed]
        expired == g1.timeRemaining <= 0
        g2 == IF expired /\ g1.quarter < 4
              THEN [g1 EXCEPT !.quarter = @ + 1, !.timeRemaining = 300]
              ELSE g1
        flip(g) == [g EXCEPT !.possession = Other(g.possession),
                             !.ballPosition = 100 - g.ballPosition,
                             !.down = 1, !.yardsToGo = 10]
        kick(g) == [g EXCEPT !.possession = Other(g.possession),
                             !.ballPosition = 25,
                             !.down = 1, !.yardsToGo = 10]
        moved == [g2 EXCEPT !.ballPosition = ClampField(@ + yardsGained)]
        played ==
          IF outcome = "touchdown" THEN kick(scoreTouchdown(g2))
          ELSE IF outcome = "interception" \/ outcome = "turnover" THEN flip(g2)
          ELSE IF yardsGained >= moved.yardsToGo
               THEN [moved EXCEPT !.down = 1, !.yardsToGo = 10]
               ELSE LET g == [moved EXCEPT !.yardsToGo = @ - yardsGained, !.down = @ + 1]
                    IN IF g.down > 4 THEN flip(g) ELSE g
    IN IF expired /\ g1.quarter >= 4
       THEN [g1 EXCEPT !.quarter = 5, !.timeRemaining = 0]        \* break
       ELSE IF expired /\ g2.quarter = 3
       THEN restoreLoop(kick(g2), entries, i + 1)                  \* continue
       ELSE restoreLoop(played, entries, i + 1)

\* the MatchState restoreGameFromHistory leaves, started in state gs with the
\* log entries in timestamp order
restoreGameFromHistory(gs, entries) ==
  IF Len(entries) = 0 THEN gs ELSE restoreLoop(InitialGameState, entries, 1)

\* updateGameStateFromReplay(yardsGained, outcome, timeElapsed)
updateGameStateFromReplay(gs, yardsGained, outcome, timeElapsed) ==
  LET g1 == [gs EXCEPT !.timeRemaining = @ - timeElapsed]
      g2 == IF g1.timeRemaining <= 0
            THEN IF g1.quarter < 4
                 THEN LET q == [g1 EXCEPT !.quarter = @ + 1, !.timeRemaining = 300]
                      IN IF q.quarter = 3
                         THEN [q EXCEPT !.possession = Other(q.possession),
                                        !.ballPosition = 25,
                                        !.down = 1, !.yardsToGo = 10]
                         ELSE q
                 ELSE [g1 EXCEPT !.quarter = 5, !.timeRemaining = 0]
            ELSE g1
      flip(g) == [g EXCEPT !.possession = Other(g.possession),
                           !.ballPosition = 100 - g.ballPosition,
                           !.down = 1, !.yardsToGo = 10]
      moved == [g2 EXCEPT !.ballPosition = ClampField(@ + yardsGained)]
  IN IF outcome = "touchdown"
     THEN [scoreTouchdown(g2) EXCEPT !.possession = Other(g2.possession),
                                     !.ballPosition = 25,
                                     !.down = 1, !.yardsToGo = 10]
     ELSE IF outcome = "interception" \/ outcome = "turnover"
     THEN flip(g2)
     ELSE IF yardsGained >= moved.yardsToGo
     THEN [moved EXCEPT !.down = 1, !.yardsToGo = 10]
     ELSE LET g == [moved EXCEPT !.yardsToGo = @ - yardsGained, !.down = @ + 1]
          IN IF g.down > 4 THEN flip(g) ELSE g

(***************************************************************************)
(* Playback engine (Game.ts) and the timeline slider.  Times are kept in   *)
(* ticks (tenths of a second): totalDuration = maxTick / ticksPerSecond    *)
(* seconds is maxTick ticks.                                               *)
(***************************************************************************)
NoSimulation == [outcome |-> "none", lastTick |-> NoFrames]

\* the calls of onPlaybackComplete made since the last loadSimulation() or
\* play(): how many (counted up to 2) and the outcome passed to the last one
NoCompletion == [count |-> 0, outcome |-> "none"]

InitialGame ==
  [simulationData |-> NoSimulation, isPlaying |-> FALSE,
   playbackTime |-> 0, totalDuration |-> 0, completed |-> NoCompletion]

\* <input type="range" id="timeline" min="0" max="100" value="0">
InitialTimeline == [max |-> 1000, value |-> 0]

\* what the engine keeps of a result
simulationOf(result) == [outcome |-> result.outcome, lastTick |-> result.lastTick]

\* Game.loadSimulation(result): the fields are assigned before the last frame
\* is read, which throws when the result has no frames
loadSimulation(g, result) ==
  LET g1 == [g EXCEPT !.simulationData = simulationOf(result),
                      !.playbackTime = 0,
                      !.isPlaying = FALSE,
                      !.completed = NoCompletion]
  IN IF result.lastTick = NoFrames
     THEN [game |-> g1, threw |-> TRUE]
     ELSE [game |-> [g1 EXCEPT !.totalDuration = result.lastTick], threw |-> FALSE]

\* Game.play()
play(g) ==
  IF g.simulationData # NoSimulation
  THEN [g EXCEPT !.isPlaying = TRUE, !.completed = NoCompletion]
  ELSE g

\* Game.pause()
pause(g) == [g EXCEPT !.isPlaying = FALSE]

\* scrub without the lower bound
scrub_NoLowerBound(g, time) == [g EXCEPT !.playbackTime = Min(time, g.totalDuration)]

\* Game.scrub(time)
scrub(g, time) == [g EXCEPT !.playbackTime = Max(0, Min(time, g.totalDuration))]

\* this.onPlaybackComplete(this.simulationData.outcome)
onPlaybackComplete(g) ==
  [g EXCEPT !.completed = [count |-> Min(@.count + 1, 2),
                           outcome |-> g.simulationData.outcome]]

\* the update loop with the playback left running at the end of the play
renderUpdate_KeepsPlaying(g, dt) ==
  LET t == g.playbackTime + dt
  IN IF t >= g.totalDuration
     THEN onPlaybackComplete([g EXCEPT !.playbackTime = g.totalDuration])
     ELSE [g EXCEPT !.playbackTime = t]

\* one pass of the onBeforeRender update loop, dt ticks after the last one
renderUpdate(g, dt) ==
  LET t == g.playbackTime + dt
  IN IF t >= g.totalDuration
     THEN onPlaybackComplete([g EXCEPT !.playbackTime = g.totalDuration,
                                       !.isPlaying = FALSE])
     ELSE [g EXCEPT !.playbackTime = t]

\* timeline.max = ...; a range input keeps its value within [min, max]
setTimelineMax(tl, m) == [max |-> m, value |-> Min(tl.value, m)]
\* timeline.value = ... (game.onTimeUpdate)
setTimelineValue(tl, v) == [tl EXCEPT !.value = Max(0, Min(v, tl.max))]

\* game.loadSimulation(result); ...; timeline.max = last tick / 10; and
\* game.play() when autoplay: the sequence shared by the play handler,
\* loadHistoryEntry, replayAllHistory and restoreGameFromHistory
showResult(g, tl, result, autoplay) ==
  LET l == loadSimulation(g, result)
  IN IF l.threw
     THEN [game |-> l.game, timeline |-> tl, threw |-> TRUE]
     ELSE [game |-> IF autoplay THEN play(l.game) ELSE l.game,
           timeline |-> setTimelineMax(tl, result.lastTick),
           threw |-> FALSE]

\* results of the model call in the application specification
UIResults ==
  {Routine,
   [outcome |-> "tackle", summary |-> [match |-> TRUE, yards |-> 10, loss |-> FALSE],
    timeElapsed |-> NoTimeElapsed, lastTick |-> LastTick],
   [outcome |-> "touchdown", summary |-> NoYardsInSummary,
    timeElapsed |-> NoTimeElapsed, lastTick |-> LastTick],
   [outcome |-> "incomplete", summary |-> NoYardsInSummary,
    timeElapsed |-> NoTimeElapsed, lastTick |-> NoFrames]}

\* seconds per render pass, in ticks
RenderDt == 1
\* slider positions the user may drag to
ScrubChoices == {0, 1, LastTick + 1}

(***************************************************************************)
(* Keyframe interpolation (interpolation.ts).  Numbers the code computes   *)
(* are kept as exact fractions [n, d] in lowest terms with d > 0; the      *)
(* inputs are integers.                                                    *)
(***************************************************************************)
RECURSIVE GCD(_, _)
GCD(a, b) == IF b = 0 THEN a ELSE GCD(b, a % b)
Abs(x) == IF x < 0 THEN 0 - x ELSE x
Rat(n, d) ==
  LET g == GCD(Abs(n), d)
  IN IF n = 0 THEN [n |-> 0, d |-> 1] ELSE [n |-> n \div g, d |-> d \div g]
Whole(a) == [n |-> a, d |-> 1]

\* the midpoint of a and b whatever t is
lerp_Midpoint(a, b, t) == Rat(a + b, 2)

\* lerp(a, b, t) = a + (b - a) * t
lerp(a, b, t) == Rat(a * t.d + (b - a) * t.n, t.d)

\* clamp01(t)
clamp01(t) ==
  IF t.n < 0 THEN Whole(0) ELSE IF t.n > t.d THEN Whole(1) ELSE t

\* the two while loops of lerpAngle: diff brought into [-180, 180]
RECURSIVE wrapAngle(_)
wrapAngle(diff) ==
  IF diff > 180 THEN wrapAngle(diff - 360)
  ELSE IF diff < -180 THEN wrapAngle(diff + 360)
  ELSE diff

\* lerpAngle(a, b, t)
lerpAngle(a, b, t) == Rat(a * t.d + wrapAngle(b - a) * t.n, t.d)

\* findPlayer(keyframe, playerId): the index in keyframe.p of the first tuple
\* with that id, 0 for null
NoPlayer == 0
findPlayer(keyframe, playerId) ==
  LET hits == {i \in 1..Len(keyframe.p) : keyframe.p[i][1] = playerId}
  IN IF hits = {} THEN NoPlayer ELSE CHOOSE i \in hits : \A j \in hits : i <= j

\* the ids an actor can have, in the order Array.prototype.sort gives them
PlayerIdOrder == <<"off_1", "off_2">>

\* getAllPlayerIds(keyframes): the ids of all keyframes, unique and sorted
getAllPlayerIds(kfs) ==
  LET appears(id) == \E i \in 1..Len(kfs) : findPlayer(kfs[i], id) # NoPlayer
  IN SelectSeq(PlayerIdOrder, appears)

\* [...keyframes].sort((a, b) => a.t - b.t): a stable sort by tick
RECURSIVE insertByTick(_, _)
insertByTick(sorted, kf) ==
  IF Len(sorted) = 0 THEN <<kf>>
  ELSE IF sorted[Len(sorted)].t <= kf.t THEN Append(sorted, kf)
  ELSE Append(insertByTick(SubSeq(sorted, 1, Len(sorted) - 1), kf), sorted[Len(sorted)])

\* the keyframes left in the order they came in
sortByTick_Identity(kfs) == kfs

RECURSIVE sortByTick(_)
sortByTick(kfs) ==
  IF Len(kfs) = 0 THEN <<>>
  ELSE insertByTick(sortByTick(SubSeq(kfs, 1, Len(kfs) - 1)), kfs[Len(kfs)])

\* the loop of findSurroundingKeyframes: beforeIndex (0-based in the code,
\* 1-based here) after looking at the keyframes from index i on
RECURSIVE beforeIndexFrom(_, _, _, _)
beforeIndexFrom(kfs, tick, i, beforeIndex) ==
  IF i > Len(kfs) THEN beforeIndex
  ELSE IF kfs[i].t <= tick THEN beforeIndexFrom(kfs, tick, i + 1, i)
  ELSE beforeIndex

\* findSurroundingKeyframes(keyframes, tick)
findSurroundingKeyframes(kfs, tick) ==
  LET beforeIndex == beforeIndexFrom(kfs, tick, 1, 1)
      afterIndex == Min(beforeIndex + 1, Len(kfs))
      before == kfs[beforeIndex]
      after == kfs[afterIndex]
      t == IF before.t # after.t
           THEN (IF after.t - before.t > 0
                 THEN Rat(tick - before.t, after.t - before.t)
                 ELSE Rat(before.t - tick, before.t - after.t))
           ELSE Whole(0)
  IN [before |-> before, after |-> after, t |-> clamp01(t)]

\* t <= 0.5
lessThanHalf_AtMostHalf(t) == 2 * t.n <= t.d

\* t < 0.5
lessThanHalf(t) == 2 * t.n < t.d

\* the body of the player loop of expandKeyframes for one id: the PlayerState
\* pushed, or nothing when the id is in neither keyframe
interpolatePlayer(before, after, t, playerId) ==
  LET playerBefore == findPlayer(before, playerId)
      playerAfter == findPlayer(after, playerId)
      p0 == IF playerBefore # NoPlayer THEN before.p[playerBefore] ELSE after.p[playerAfter]
      p1 == IF playerAfter # NoPlayer THEN after.p[playerAfter] ELSE before.p[playerBefore]
  IN IF playerBefore = NoPlayer /\ playerAfter = NoPlayer
     THEN <<>>
     ELSE <<[id |-> playerId,
             x |-> lerp(p0[2], p1[2], t),
             z |-> lerp(p0[3], p1[3], t),
             rotation |-> lerpAngle(p0[4], p1[4], t),
             animation |-> IF lessThanHalf(t) THEN p0[5] ELSE p1[5]]>>

RECURSIVE interpolatePlayers(_, _, _, _, _)
interpolatePlayers(before, after, t, ids, i) ==
  IF i > Len(ids) THEN <<>>
  ELSE interpolatePlayer(before, after, t, ids[i])
         \o interpolatePlayers(before, after, t, ids, i + 1)

\* the events of the keyframe before the tick instead of the exact one
eventsAt_FromBefore(kfs, tick) == findSurroundingKeyframes(kfs, tick).before.e

\* sortedKeyframes.find(k => k.t === tick)?.e || []
eventsAt(kfs, tick) ==
  LET hits == {i \in 1..Len(kfs) : kfs[i].t = tick}
  IN IF hits = {} THEN <<>>
     ELSE kfs[CHOOSE i \in hits : \A j \in hits : i <= j].e

\* the frame expandKeyframes pushes for one tick
frameAt(kfs, allPlayerIds, tick) ==
  LET s == findSurroundingKeyframes(kfs, tick)
  IN [tick |-> tick,
      ball |-> <<lerp(s.before.b[1], s.after.b[1], s.t),
                 lerp(s.before.b[2], s.after.b[2], s.t),
                 lerp(s.before.b[3], s.after.b[3], s.t)>>,
      players |-> interpolatePlayers(s.before, s.after, s.t, allPlayerIds, 1),
      events |-> eventsAt(kfs, tick)]

\* decompressKeyframe(kf)
decompressKeyframe(kf) ==
  [tick |-> kf.t,
   ball |-> <<Whole(kf.b[1]), Whole(kf.b[2]), Whole(kf.b[3])>>,
   players |-> [i \in 1..Len(kf.p) |->
                  [id |-> kf.p[i][1], x |-> Whole(kf.p[i][2]), z |-> Whole(kf.p[i][3]),
                   rotation |-> Whole(kf.p[i][4]), animation |-> kf.p[i][5]]],
   events |-> kf.e]

\* expandKeyframes without the sort by tick
expandKeyframes_NoSort(keyframesIn) ==
  IF Len(keyframesIn) = 0 THEN <<>>
  ELSE LET sortedKeyframes == keyframesIn
       IN IF Len(sortedKeyframes) = 1
          THEN <<decompressKeyframe(sortedKeyframes[1])>>
          ELSE LET startTick == sortedKeyframes[1].t
                   endTick == sortedKeyframes[Len(sortedKeyframes)].t
                   allPlayerIds == getAllPlayerIds(sortedKeyframes)
               IN [k \in 1..(endTick - startTick + 1) |->
                     frameAt(sortedKeyframes, allPlayerIds, startTick + k - 1)]

\* expandKeyframes(compressed): the frames for compressed.keyframes
expandKeyframes(keyframesIn) ==
  IF Len(keyframesIn) = 0 THEN <<>>
  ELSE LET sortedKeyframes == sortByTick(keyframesIn)
       IN IF Len(sortedKeyframes) = 1
          THEN <<decompressKeyframe(sortedKeyframes[1])>>
          ELSE LET startTick == sortedKeyframes[1].t
                   endTick == sortedKeyframes[Len(sortedKeyframes)].t
                   allPlayerIds == getAllPlayerIds(sortedKeyframes)
               IN [k \in 1..(endTick - startTick + 1) |->
                     frameAt(sortedKeyframes, allPlayerIds, startTick + k - 1)]

\* input keyframes: a tick, the actors listed, and one of two sets of values
\* (ball, pose of every listed actor, events; a keyframe without e has the
\* empty list, which is what `e || []` makes of it)
PresentChoices == {<<"off_1">>, <<"off_1", "off_2">>}
ValueChoices == {"set", "run"}
ballOf(v) == IF v = "set" THEN <<0, 0, 0>> ELSE <<0, 1, 4>>
poseOf(id, v) ==
  IF v = "set" THEN <<id, 0, 0, 10, "idle">> ELSE <<id, 4, 2, 350, "sprint">>
eventsOf(v) == IF v = "set" THEN <<>> ELSE <<"snap">>
keyframeOf(t, present, v) ==
  [t |-> t, b |-> ballOf(v),
   p |-> [i \in 1..Len(present) |-> poseOf(present[i], v)],
   e |-> eventsOf(v)]
KeyframeChoices ==
  {keyframeOf(t, present, v) : t \in 0..MaxTick, present \in PresentChoices,
                               v \in ValueChoices}
KeyframeInputs ==
  UNION {[1..n -> KeyframeChoices] : n \in 0..MaxKeyframes}

(***************************************************************************)
(* The waypoint adapter (ultraCompactAdapter.ts).  The elapsed time of a   *)
(* play is kept in tenths of a second.                                     *)
(***************************************************************************)
\* Math.round(n / d) for n >= 0 and d > 0: halves go up
roundDiv(n, d) == (2 * n + d) \div (2 * d)

\* totalTicks = Math.round(timeElapsed * 0.75 * 10)
totalTicksOf(tenths) == roundDiv(3 * tenths, 4)

\* the tick of keyframe i (0-based) of numKeyframes
keyframeTick(i, numKeyframes, totalTicks) ==
  IF i = 0 THEN 0 ELSE roundDiv(i * totalTicks, numKeyframes - 1)

\* the waypoint index rounded down instead of to the nearest
waypointIndex_Floor(i, numKeyframes, waypointCount) ==
  IF waypointCount = 1 THEN 0
  ELSE Min((i * (waypointCount - 1)) \div (numKeyframes - 1), waypointCount - 1)

\* the waypoint index (0-based) an actor with waypointCount waypoints has in
\* keyframe i of numKeyframes
waypointIndex(i, numKeyframes, waypointCount) ==
  IF waypointCount = 1 THEN 0
  ELSE Min(roundDiv(i * (waypointCount - 1), numKeyframes - 1), waypointCount - 1)

\* ultraCompactToKeyframes(data): data.timeElapsed is in tenths of a second
\* here, and the timeElapsed returned is the fraction of a second
ultraCompactToKeyframes(data) ==
  LET totalTicks == totalTicksOf(data.timeElapsed)
      numKeyframes == Len(data.ballPath)
      playersAt(i) ==
        [a \in 1..Len(data.playerPaths) |->
           LET waypoints == data.playerPaths[a].waypoints
               waypoint == waypoints[waypointIndex(i, numKeyframes, Len(waypoints)) + 1]
           IN <<data.playerPaths[a].id, waypoint.x, waypoint.z, waypoint.rotation,
                waypoint.animation>>]
  IN [outcome |-> data.outcome,
      summary |-> data.summary,
      timeElapsed |-> Rat(3 * data.timeElapsed, 40),
      keyframes |-> [k \in 1..numKeyframes |->
                       [t |-> keyframeTick(k - 1, numKeyframes, totalTicks),
                        b |-> data.ballPath[k],
                        p |-> playersAt(k - 1),
                        e |-> IF k = 1 THEN data.events ELSE <<>>]]]

\* expandToKeyframes(data) of the codec module, with data.timeElapsed in
\* tenths of a second.  Keyframe i is at Math.round(i * totalTicks / (N - 1));
\* an actor with more than one waypoint is placed at the waypoint that starts
\* the segment its tick falls into, Math.floor(tick / (totalTicks / segments))
\* capped at segments - 1; with totalTicks = 0 that quotient is NaN, the
\* waypoint undefined and reading it throws.  Events go to every keyframe of
\* tick 0
expandToKeyframes(data) ==
  LET totalTicks == totalTicksOf(data.timeElapsed)
      ballWaypoints == Len(data.ballPath)
      tickOf(i) == roundDiv(i * totalTicks, ballWaypoints - 1)
      segmentIndex(tick, playerSegments) ==
        Min((tick * playerSegments) \div totalTicks, playerSegments - 1)
      playersAt(i) ==
        [a \in 1..Len(data.playerPaths) |->
           LET waypoints == data.playerPaths[a].waypoints
               playerSegments == Len(waypoints) - 1
               w == IF playerSegments = 0
                    THEN waypoints[1]
                    ELSE waypoints[segmentIndex(tickOf(i), playerSegments) + 1]
           IN <<data.playerPaths[a].id, w.x, w.z, w.rotation, w.animation>>]
  IN IF totalTicks = 0
        /\ \E a \in 1..Len(data.playerPaths) : Len(data.playerPaths[a].waypoints) > 1
     THEN [threw |-> TRUE]
     ELSE [threw |-> FALSE,
           outcome |-> data.outcome,
           summary |-> data.summary,
           timeElapsed |-> Rat(3 * data.timeElapsed, 40),
           keyframes |-> [k \in 1..ballWaypoints |->
                            [t |-> tickOf(k - 1),
                             b |-> data.ballPath[k],
                             p |-> playersAt(k - 1),
                             e |-> IF tickOf(k - 1) = 0 THEN data.events ELSE <<>>]]]

\* waypoint plays: a ball path, actors with their waypoints, events
AnimationOrder == <<"idle", "sprint", "throw", "catch", "fall">>
ActorIds == <<"off_1", "off_2", "def_1">>
waypointOf(a, k) ==
  [x |-> 10 * a + k, z |-> k, rotation |-> k - 1,
   animation |-> AnimationOrder[((k - 1) % Len(AnimationOrder)) + 1]]
playerPathOf(a, count) ==
  [id |-> ActorIds[((a - 1) % Len(ActorIds)) + 1],
   waypoints |-> [k \in 1..count |-> waypointOf(a, k)]]
ballPathOf(n) == [k \in 1..n |-> <<k, 1, 2 * k>>]
UltraCompactInputs ==
  {[outcome |-> "tackle", yardsGained |-> 8, timeElapsed |-> tenths,
    summary |-> "HB gains 8 yards", ballPath |-> ballPathOf(n),
    playerPaths |-> [a \in 1..Len(counts) |-> playerPathOf(a, counts[a])],
    events |-> events] :
     tenths \in 1..MaxElapsedTenths, n \in 2..MaxBallPath,
     counts \in UNION {[1..m -> 1..MaxWaypoints] : m \in 0..MaxActors},
     events \in {<<>>, <<"snap", "tackle">>}}

(***************************************************************************)
(* The ultra-compact codec (compactEncoding).  A string is the sequence of *)
(* its characters.  A coordinate is kept in hundredths, a decoded one in   *)
(* tenths; a heading is kept by its measure in tenths of a degree (the     *)
(* code gets radians and multiplies by 180 / PI), a decoded one in whole   *)
(* degrees; an elapsed time is kept in hundredths of a second.             *)
(***************************************************************************)
\* the digits of Number.prototype.toString(36) and parseInt(s, 36)
Digits36 ==
  <<"0", "1", "2", "3", "4", "5", "6", "7", "8", "9", "a", "b", "c", "d", "e",
    "f", "g", "h", "i", "j", "k", "l", "m", "n", "o", "p", "q", "r", "s", "t",
    "u", "v", "w", "x", "y", "z">>

\* n.toString(36) for an integer n
RECURSIVE digits36(_)
digits36(n) ==
  IF n < 36 THEN <<Digits36[n + 1]>>
  ELSE Append(digits36(n \div 36), Digits36[(n % 36) + 1])
toString36(n) == IF n < 0 THEN <<"-">> \o digits36(0 - n) ELSE digits36(n)

\* parseInt(s, 36) for a string of digits with an optional sign
digitValue(c) == (CHOOSE i \in 1..36 : Digits36[i] = c) - 1
RECURSIVE parseDigits36(_)
parseDigits36(s) ==
  IF Len(s) = 0 THEN 0
  ELSE 36 * parseDigits36(SubSeq(s, 1, Len(s) - 1)) + digitValue(s[Len(s)])
parseInt36(s) ==
  IF s[1] = "-" THEN 0 - parseDigits36(Tail(s)) ELSE parseDigits36(s)

\* String.prototype.split(sep) with a one-character separator
RECURSIVE split(_, _)
split(s, sep) ==
  LET hits == {i \in 1..Len(s) : s[i] = sep}
  IN IF hits = {} THEN <<s>>
     ELSE LET i == CHOOSE h \in hits : \A g \in hits : h <= g
          IN <<SubSeq(s, 1, i - 1)>> \o split(SubSeq(s, i + 1, Len(s)), sep)

\* Array.prototype.join(sep)
RECURSIVE join(_, _)
join(parts, sep) ==
  IF Len(parts) = 0 THEN <<>>
  ELSE IF Len(parts) = 1 THEN parts[1]
  ELSE parts[1] \o <<sep>> \o join(Tail(parts), sep)

\* the code tables; a key that is not in a table gives undefined
Undefined == "undefined"
ANIM_CODES(animation) ==
  CASE animation = "idle" -> "i" [] animation = "sprint" -> "s"
    [] animation = "backpedal" -> "b" [] animation = "throw" -> "t"
    [] animation = "catch" -> "c" [] animation = "tackle" -> "k"
    [] animation = "fall" -> "f" [] animation = "block" -> "l"
    [] OTHER -> Undefined
ANIM_DECODE(code) ==
  CASE code = "i" -> "idle" [] code = "s" -> "sprint" [] code = "b" -> "backpedal"
    [] code = "t" -> "throw" [] code = "c" -> "catch" [] code = "k" -> "tackle"
    [] code = "f" -> "fall" [] code = "l" -> "block"
    [] OTHER -> Undefined
OUTCOME_CODES(outcome) ==
  CASE outcome = "touchdown" -> "T" [] outcome = "tackle" -> "K"
    [] outcome = "incomplete" -> "I" [] outcome = "interception" -> "X"
    [] outcome = "turnover" -> "F"
    [] OTHER -> Undefined
OUTCOME_DECODE(code) ==
  CASE code = "T" -> "touchdown" [] code = "K" -> "tackle" [] code = "I" -> "incomplete"
    [] code = "X" -> "interception" [] code = "F" -> "turnover"
    [] OTHER -> Undefined

\* Math.round(h / 10) for an integer h: halves go up
roundTenth(h) == (h + 5) \div 10

\* encodeCoord(n), n in hundredths
encodeCoord(n) == toString36(roundTenth(n) + 10000)

\* decodeCoord(s), in tenths
decodeCoord(s) == parseInt36(s) - 10000

\* the % of JavaScript: the remainder has the sign of the dividend
remainder(a, m) == IF a >= 0 THEN a % m ELSE 0 - ((0 - a) % m)

\* encodeRotation(rad), the heading in tenths of a degree
encodeRotation(rad) ==
  LET deg0 == remainder(rad, 3600)
      deg == IF deg0 < 0 THEN deg0 + 3600 ELSE deg0
  IN toString36(roundTenth(deg))

\* decodeRotation(s), in whole degrees
decodeRotation(s) == parseInt36(s)

\* encodeWaypoint(w)
encodeWaypoint(w) ==
  encodeCoord(w.x) \o <<",">> \o encodeCoord(w.z) \o <<",">>
    \o encodeRotation(w.rotation) \o <<",">>
    \o <<IF ANIM_CODES(w.animation) # Undefined THEN ANIM_CODES(w.animation) ELSE "i">>

\* decodeWaypoint(s)
decodeWaypoint(s) ==
  LET f == split(s, ",")
  IN [x |-> decodeCoord(f[1]), z |-> decodeCoord(f[2]),
      rotation |-> decodeRotation(f[3]),
      animation |-> IF Len(f[4]) = 1 /\ ANIM_DECODE(f[4][1]) # Undefined
                    THEN ANIM_DECODE(f[4][1])
                    ELSE "idle"]

\* encodePlayerPath(playerId, waypoints)
encodePlayerPath(playerId, waypoints) ==
  playerId \o <<":">>
    \o join([k \in 1..Len(waypoints) |-> encodeWaypoint(waypoints[k])], ">")

\* decodePlayerPath(s): pathStr is undefined when s has no ':', and
\* pathStr.split then throws
decodePlayerPathThrows(s) == Len(split(s, ":")) < 2
decodePlayerPath(s) ==
  LET f == split(s, ":")
      w == split(f[2], ">")
  IN [id |-> f[1], waypoints |-> [k \in 1..Len(w) |-> decodeWaypoint(w[k])]]

\* encodeBallPath(points)
encodeBallPath(points) ==
  join([k \in 1..Len(points) |->
          encodeCoord(points[k][1]) \o <<",">> \o encodeCoord(points[k][2])
            \o <<",">> \o encodeCoord(points[k][3])], ">")

\* decodeBallPath(s)
decodeBallPath(s) ==
  LET pts == split(s, ">")
  IN [k \in 1..Len(pts) |->
        LET f == split(pts[k], ",")
        IN <<decodeCoord(f[1]), decodeCoord(f[2]), decodeCoord(f[3])>>]

\* encodeUltraCompact(data)
encodeUltraCompact(data) ==
  LET outcomeCode == OUTCOME_CODES(data.outcome)
      duration == roundTenth(data.timeElapsed)
      meta == <<outcomeCode>> \o toString36(duration)
      ball == encodeBallPath(data.ballPath)
      players == join([a \in 1..Len(data.playerPaths) |->
                         encodePlayerPath(data.playerPaths[a].id,
                                          data.playerPaths[a].waypoints)], ";")
      events == join(data.events, ",")
  IN meta \o <<"|">> \o ball \o <<"|">> \o players \o <<"|">> \o events
       \o <<"|">> \o data.summary

\* decodeUltraCompact(encoded): the data, or the exception thrown
decodeUltraCompact(encoded) ==
  LET parts == split(encoded, "|")
      meta == parts[1]
      ball == parts[2]
      players == split(parts[3], ";")
      events == parts[4]
      summaryParts == SubSeq(parts, 5, Len(parts))
  IN IF Len(parts) < 4 THEN [threw |-> TRUE]
     ELSE IF \E a \in 1..Len(players) : decodePlayerPathThrows(players[a])
     THEN [threw |-> TRUE]
     ELSE [threw |-> FALSE,
           outcome |-> OUTCOME_DECODE(meta[1]),
           summary |-> join(summaryParts, "|"),
           timeElapsed |-> parseInt36(Tail(meta)),
           ballPath |-> decodeBallPath(ball),
           playerPaths |-> [a \in 1..Len(players) |-> decodePlayerPath(players[a])],
           events |-> IF Len(events) > 0 THEN split(events, ",") ELSE <<>>]

\* plays handed to the codec: every outcome, summaries with and without '|',
\* event lists, 0..MaxCodecActors actors with two waypoints each, and one
\* coordinate and one heading used throughout the play
CodecOutcomes == {"touchdown", "tackle", "incomplete", "interception", "turnover"}
SummaryChoices == {<<>>, <<"T", "D">>, <<"a", "|", "b">>}
snapEvent == <<"s", "n", "a", "p">>
catchEvent == <<"c", "a", "t", "c", "h">>
EventChoices == {<<>>, <<snapEvent>>, <<snapEvent, catchEvent>>}
CodecActorIds == <<<<"o", "1">>, <<"d", "3">>, <<"o", "2">>>>
CoordChoices == {-99999, -1500, -15, -5, 0, 4, 5, 1234, 99999}
HeadingChoices == {-900, -1, 0, 4, 5, 900, 1800, 3595, 3600, 4010}
codecPlay(outcome, summary, events, actors, c, h) ==
  [outcome |-> outcome, summary |-> summary, timeElapsed |-> 650,
   ballPath |-> <<<<c, 100, 0 - c>>, <<0 - c, 100, c>>>>,
   playerPaths |->
     [a \in 1..actors |->
        [id |-> CodecActorIds[((a - 1) % Len(CodecActorIds)) + 1],
         waypoints |-> <<[x |-> c, z |-> 0 - c, rotation |-> h, animation |-> "idle"],
                         [x |-> 0 - c, z |-> c, rotation |-> h, animation |-> "sprint"]>>]],
   events |-> events]
CodecInputs ==
  {codecPlay(outcome, summary, events, actors, c, h) :
     outcome \in CodecOutcomes, summary \in SummaryChoices, events \in EventChoices,
     actors \in 0..MaxCodecActors, c \in CoordChoices, h \in HeadingChoices}

(***************************************************************************)
(* sanitizeCompressedSimulation (part_002).  Strings are TLA+ strings.     *)
(***************************************************************************)
validOutcomes == {"touchdown", "tackle", "incomplete", "interception", "turnover"}
validAnimations ==
  {"idle", "sprint", "backpedal", "throw", "catch", "tackle", "fall", "block"}

\* String.prototype.toLowerCase for the letters A-Z
UpperCase == "ABCDEFGHIJKLMNOPQRSTUVWXYZ"
LowerCase == "abcdefghijklmnopqrstuvwxyz"
lowerChar(c) ==
  LET hits == {i \in 1..Len(UpperCase) : SubSeq(UpperCase, i, i) = c}
  IN IF hits = {} THEN c ELSE SubSeq(LowerCase, CHOOSE i \in hits : TRUE, CHOOSE i \in hits : TRUE)
RECURSIVE toLowerCase(_)
toLowerCase(s) ==
  IF Len(s) = 0 THEN ""
  ELSE toLowerCase(SubSeq(s, 1, Len(s) - 1)) \o lowerChar(SubSeq(s, Len(s), Len(s)))

\* String.prototype.includes
includes(s, sub) ==
  \E i \in 1..(Len(s) - Len(sub) + 1) : SubSeq(s, i, i + Len(sub) - 1) = sub

\* the outcome sanitizeCompressedSimulation leaves in data.outcome
sanitizeOutcome(outcome) ==
  LET outcomeLower == toLowerCase(outcome)
  IN IF outcome \in validOutcomes THEN outcome
     ELSE IF includes(outcomeLower, "gain") \/ includes(outcomeLower, "yards")
               \/ includes(outcomeLower, "complete")
     THEN "tackle"
     ELSE IF includes(outcomeLower, "sack") \/ includes(outcomeLower, "loss")
     THEN "tackle"
     ELSE IF includes(outcomeLower, "drop") \/ includes(outcomeLower, "miss")
               \/ includes(outcomeLower, "incomplete")
     THEN "incomplete"
     ELSE IF includes(outcomeLower, "intercept") \/ includes(outcomeLower, "pick")
     THEN "interception"
     ELSE IF includes(outcomeLower, "fumble") \/ includes(outcomeLower, "turnover")
     THEN "turnover"
     ELSE IF includes(outcomeLower, "touchdown") \/ includes(outcomeLower, "td")
               \/ includes(outcomeLower, "score")
     THEN "touchdown"
     ELSE "tackle"

\* a value that is not a string: what animationMap[key] is for a key the
\* object literal inherits from Object.prototype
NotAString == "[object]"
InheritedKeys == {"constructor", "__proto__"}

\* animationMap[key]; undefined for a key that is not there
animationMap(key) ==
  CASE key \in {"squat", "crouch", "stance", "set"} -> "idle"
    [] key \in {"run", "running", "jog", "rush"} -> "sprint"
    [] key \in {"pass", "throwing"} -> "throw"
    [] key \in {"receiving", "catching"} -> "catch"
    [] key \in {"tackling", "hit"} -> "tackle"
    [] key = "blocking" -> "block"
    [] key \in {"falling", "down"} -> "fall"
    [] key \in {"back", "retreat"} -> "backpedal"
    [] key \in InheritedKeys -> NotAString
    [] OTHER -> Undefined

\* the body of the animation loop for one player: animation.toLowerCase()
\* throws when the value is not a string
sanitizeAnimationThrows(animation) == animation = NotAString
sanitizeAnimation(animation) ==
  IF animation \in validAnimations THEN animation
  ELSE LET mapped == animationMap(toLowerCase(animation))
       IN IF mapped # Undefined THEN mapped ELSE "idle"

\* sanitizeCompressedSimulation(data): the data, or the exception thrown
sanitizeCompressedSimulation(data) ==
  IF \E k \in 1..Len(data.keyframes) : \E j \in 1..Len(data.keyframes[k].p) :
       sanitizeAnimationThrows(data.keyframes[k].p[j][5])
  THEN [threw |-> TRUE]
  ELSE [threw |-> FALSE,
        data |-> [data EXCEPT
                    !.outcome = sanitizeOutcome(data.outcome),
                    !.keyframes =
                      [k \in 1..Len(data.keyframes) |->
                         [data.keyframes[k] EXCEPT
                            !.p = [j \in 1..Len(data.keyframes[k].p) |->
                                     [data.keyframes[k].p[j] EXCEPT
                                        ![5] = sanitizeAnimation(@)]]]]]]

\* what the model may answer: outcome strings, and keyframes whose one player
\* has any of the animation strings
OutcomeInputs ==
  validOutcomes \cup
    {"TD", "Rushing TD", "score", "Tackle", "sack", "Sacked for a loss",
     "dropped", "Missed catch", "Incomplete", "incomplete pass", "Incomplete - dropped",
     "pick", "Intercepted", "fumble", "Fumble lost", "complete", "gain", "5 yards",
     "first down", "safety", ""}
AnimationInputs ==
  validAnimations \cup
    {"run", "Running", "IDLE", "dance", "constructor"}
sanitizeInput(outcome, animations) ==
  [outcome |-> outcome, summary |-> "HB gains 8 yards", yardsGained |-> 8,
   keyframes |-> [k \in 1..Len(animations) |->
                    [t |-> 5 * (k - 1), b |-> <<0, 1, k>>,
                     p |-> <<<<"off_1", 0, k, 0, animations[k]>>>>, e |-> <<>>]]]
SanitizeInputs ==
  {sanitizeInput(outcome, animations) :
     outcome \in OutcomeInputs,
     animations \in UNION {[1..n -> AnimationInputs] : n \in 0..MaxSanitizeKeyframes}}

(***************************************************************************)
(* State.                                                                  *)
(***************************************************************************)
VARIABLES
  gameState,            \* let gameState: GameState
  db,                   \* the IndexedDB history store, in timestamp order
  plays,                \* the btnConfirmPlay handlers in flight
  btnNewPlayDisabled,   \* btnNewPlay.disabled
  controlsDisabled,     \* what setControlsEnabled sets: btnNewGame.disabled,
                        \* btnPlay/btnPause/timeline.disabled, pointer-events
                        \* of btnHistory
  playSelectionActive,  \* the play-selection modal is shown
  playsSelected,        \* selectedOffensePlay and selectedDefensePlay are set
  historyModalActive,   \* the history modal is shown
  historyList,          \* the entries rendered in the history list
  newGamePending,       \* startNewGame awaits clearHistory
  replay,               \* replayAllHistory: [pc, i, entries, aborted]
  boot,                 \* restoreGameFromHistory of the page load
  game,                 \* the Game instance's playback fields
  timeline,             \* the timeline slider: [max, value]
  prev,                 \* gameState before the last direct transition call
  last,                 \* the last direct transition call: [op, y, o, t]
  budget,               \* plays that may still be confirmed in this run, and
                        \* how many of them may be other than routine
  keyframes,            \* the keyframes of the last expandKeyframes call
  frames,               \* the frames it returned
  call,                 \* the call of a pure function that is under way:
                        \* its name and its arguments
  returned              \* what that call returned

machineVars == <<prev, last>>
interpVars == <<keyframes, frames>>
pureVars == <<call, returned>>
uiVars == <<plays, btnNewPlayDisabled, controlsDisabled, playSelectionActive,
            playsSelected, historyModalActive, historyList, newGamePending,
            replay, boot, game, timeline>>
vars == <<gameState, db, plays, btnNewPlayDisabled, controlsDisabled,
          playSelectionActive, playsSelected, historyModalActive, historyList,
          newGamePending, replay, boot, game, timeline, prev, last, budget,
          keyframes, frames, call, returned>>

\* no pure function is being called
NoPureCall == [fn |-> "none"]

NoCall == [op |-> "none", y |-> 0, o |-> "tackle", t |-> 0]
NoEntry ==
  [result |-> [outcome |-> "none", summary |-> NoYardsInSummary,
               timeElapsed |-> 0, lastTick |-> NoFrames],
   gameState |-> InitialGameState, yardsGained |-> 0]
ReplayIdle == [pc |-> "idle", i |-> 0, entries |-> <<>>, aborted |-> FALSE]

\* the module-level state of main.ts once the page has loaded on an empty
\* store and the restoreGameFromHistory() of its last line has returned
InitWith(p, v) ==
  /\ budget = [plays |-> p, varied |-> v]
  /\ gameState = InitialGameState
  /\ db = <<>>
  /\ plays = <<>>
  /\ btnNewPlayDisabled = FALSE
  /\ controlsDisabled = FALSE
  /\ playSelectionActive = FALSE
  /\ playsSelected = FALSE
  /\ historyModalActive = FALSE
  /\ historyList = <<>>
  /\ newGamePending = FALSE
  /\ replay = ReplayIdle
  /\ boot = [pending |-> FALSE, entries |-> <<>>]
  /\ game = InitialGame
  /\ timeline = InitialTimeline
  /\ prev = InitialGameState
  /\ last = NoCall
  /\ keyframes = <<>>
  /\ frames = <<>>
  /\ call = NoPureCall
  /\ returned = NoPureCall

MaxScore == 7 * MaxTouchdowns
WithinScoreBound(gs) == gs.homeScore <= MaxScore /\ gs.awayScore <= MaxScore

(***************************************************************************)
(* The transition function on its own.                                     *)
(***************************************************************************)
\* one call of updateGameState on the current MatchState
Transition ==
  \E y \in YardsChoices, o \in Outcomes, t \in ElapsedChoices :
    LET n == updateGameState(gameState, y, o, t)
    IN /\ last = NoCall
       /\ WithinScoreBound(n)
       /\ gameState' = n
       /\ prev' = gameState
       /\ last' = [op |-> "updateGameState", y |-> y, o |-> o, t |-> t]
       /\ UNCHANGED <<db, uiVars, budget, interpVars, pureVars>>

\* the call returns: its arguments and the state it started from are gone
Return ==
  /\ last # NoCall
  /\ last' = NoCall
  /\ prev' = InitialGameState
  /\ UNCHANGED <<gameState, db, uiVars, budget, interpVars, pureVars>>

Init == InitWith(0, 0)

NextMachine == Transition \/ Return
SpecMachine == Init /\ [][NextMachine]_vars

(***************************************************************************)
(* Live plays only: every play handler runs to its end before the next     *)
(* play is confirmed, and nothing else is clicked.                         *)
(***************************************************************************)
LivePlay ==
  \E result \in LiveResults, rnd \in RandomTackleYards :
    LET a == applyResult(gameState, result, rnd)
    IN /\ budget.plays > 0
       /\ result # Routine => budget.varied > 0
       /\ WithinScoreBound(a.gs)
       /\ budget' = [plays |-> budget.plays - 1,
                     varied |-> budget.varied - (IF result # Routine THEN 1 ELSE 0)]
       /\ gameState' = a.gs
       /\ db' = Append(db, a.entry)
       /\ UNCHANGED <<machineVars, interpVars, pureVars, uiVars>>

NextLive == LivePlay
SpecLive == InitWith(MaxLive, MaxVaried) /\ [][NextLive]_vars

(***************************************************************************)
(* The application: the handlers of main.ts and the render loop.           *)
(***************************************************************************)
\* updateHUD(): its only effect on the controls
hudNewPlayDisabled(gs, disabled) == IF gs.quarter > 4 THEN TRUE ELSE disabled

\* alert() is showing: the event loop is blocked until it is dismissed
AlertShowing == \E i \in 1..Len(plays) : plays[i].pc = "alert"

RemoveAt(seq, i) == SubSeq(seq, 1, i - 1) \o SubSeq(seq, i + 1, Len(seq))

\* btnNewPlay.onclick
NewPlayClick ==
  /\ ~AlertShowing
  /\ ~btnNewPlayDisabled
  /\ playSelectionActive' = TRUE
  /\ playsSelected' = FALSE
  /\ UNCHANGED <<gameState, db, plays, btnNewPlayDisabled, controlsDisabled,
                 historyModalActive, historyList, newGamePending, replay, boot,
                 game, timeline, machineVars, interpVars, pureVars, budget>>

\* card.onclick -> selectPlay: the user's play and the CPU's random one
SelectPlay ==
  /\ ~AlertShowing
  /\ playSelectionActive
  /\ ~playsSelected
  /\ playsSelected' = TRUE
  /\ UNCHANGED <<gameState, db, plays, btnNewPlayDisabled, controlsDisabled,
                 playSelectionActive, historyModalActive, historyList,
                 newGamePending, replay, boot, game, timeline, machineVars, interpVars, pureVars, budget>>

\* btnConfirmPlay.onclick, up to await game.animateToFormation(...)
ConfirmPlay ==
  /\ ~AlertShowing
  /\ playSelectionActive
  /\ playsSelected
  /\ Len(plays) < MaxInFlight
  /\ budget.plays > 0
  /\ budget' = [budget EXCEPT !.plays = @ - 1]
  /\ playSelectionActive' = FALSE
  /\ btnNewPlayDisabled' = TRUE
  /\ plays' = Append(plays, [pc |-> "formation", gs0 |-> gameState, db0 |-> db,
                             entry |-> NoEntry, persisted |-> FALSE])
  /\ UNCHANGED <<gameState, db, controlsDisabled, playsSelected,
                 historyModalActive, historyList, newGamePending, replay, boot,
                 game, timeline, machineVars, interpVars, pureVars>>

\* the formation animation ends; the handler calls aiService.simulatePlay
FormationDone(i) ==
  /\ ~AlertShowing
  /\ plays[i].pc = "formation"
  /\ plays' = [plays EXCEPT ![i].pc = "simulate"]
  /\ UNCHANGED <<gameState, db, btnNewPlayDisabled, controlsDisabled,
                 playSelectionActive, playsSelected, historyModalActive,
                 historyList, newGamePending, replay, boot, game, timeline,
                 machineVars, interpVars, pureVars, budget>>

\* simulatePlay resolves: yards, goal-line check, updateGameState, updateHUD,
\* and the addEntry request, which the store accepts (ok) or rejects
SimulateResolve(i) ==
  \E result \in UIResults, rnd \in RandomTackleYards, ok \in BOOLEAN :
    LET a == applyResult(gameState, result, rnd)
    IN /\ ~AlertShowing
       /\ plays[i].pc = "simulate"
       /\ WithinScoreBound(a.gs)
       /\ (result # Routine \/ ~ok) => budget.varied > 0
       /\ budget' = [budget EXCEPT
                       !.varied = @ - (IF result # Routine \/ ~ok THEN 1 ELSE 0)]
       /\ gameState' = a.gs
       /\ btnNewPlayDisabled' = hudNewPlayDisabled(a.gs, btnNewPlayDisabled)
       /\ db' = IF ok THEN Append(db, a.entry) ELSE db
       /\ plays' = [plays EXCEPT ![i].pc = "persist", ![i].entry = a.entry,
                                 ![i].persisted = ok]
       /\ UNCHANGED <<controlsDisabled, playSelectionActive, playsSelected,
                      historyModalActive, historyList, newGamePending, replay,
                      boot, game, timeline, machineVars, interpVars, pureVars>>

\* simulatePlay rejects: catch -> alert
SimulateReject(i) ==
  /\ ~AlertShowing
  /\ plays[i].pc = "simulate"
  /\ budget.varied > 0
  /\ budget' = [budget EXCEPT !.varied = @ - 1]
  /\ plays' = [plays EXCEPT ![i].pc = "alert"]
  /\ UNCHANGED <<gameState, db, btnNewPlayDisabled, controlsDisabled,
                 playSelectionActive, playsSelected, historyModalActive,
                 historyList, newGamePending, replay, boot, game, timeline,
                 machineVars, interpVars, pureVars>>

\* addEntry settles: on success loadSimulation, timeline.max, New Play
\* enabled, game.play(); a rejection or a throw of loadSimulation -> alert
PersistDone(i) ==
  LET shown == showResult(game, timeline, plays[i].entry.result, TRUE)
  IN /\ ~AlertShowing
     /\ plays[i].pc = "persist"
     /\ IF ~plays[i].persisted
        THEN /\ plays' = [plays EXCEPT ![i].pc = "alert"]
             /\ UNCHANGED <<game, timeline, btnNewPlayDisabled>>
        ELSE /\ game' = shown.game
             /\ timeline' = shown.timeline
             /\ IF shown.threw
                THEN /\ plays' = [plays EXCEPT ![i].pc = "alert"]
                     /\ UNCHANGED btnNewPlayDisabled
                ELSE /\ plays' = RemoveAt(plays, i)
                     /\ btnNewPlayDisabled' = FALSE
     /\ UNCHANGED <<gameState, db, controlsDisabled, playSelectionActive,
                    playsSelected, historyModalActive, historyList,
                    newGamePending, replay, boot, machineVars, interpVars, pureVars, budget>>

\* the alert of the catch block is dismissed; New Play is enabled again
AlertDismiss(i) ==
  /\ plays[i].pc = "alert"
  /\ plays' = RemoveAt(plays, i)
  /\ btnNewPlayDisabled' = FALSE
  /\ UNCHANGED <<gameState, db, controlsDisabled, playSelectionActive,
                 playsSelected, historyModalActive, historyList, newGamePending,
                 replay, boot, game, timeline, machineVars, interpVars, pureVars, budget>>

\* btnNewGame.onclick -> startNewGame: the confirm dialog is accepted and
\* the clearHistory request is made
NewGameConfirm ==
  /\ ~AlertShowing
  /\ ~controlsDisabled
  /\ ~newGamePending
  /\ db' = <<>>
  /\ newGamePending' = TRUE
  /\ UNCHANGED <<gameState, plays, btnNewPlayDisabled, controlsDisabled,
                 playSelectionActive, playsSelected, historyModalActive,
                 historyList, replay, boot, game, timeline, machineVars, interpVars, pureVars, budget>>

\* clearHistory has settled: resetGameState()
NewGameCleared ==
  /\ ~AlertShowing
  /\ newGamePending
  /\ newGamePending' = FALSE
  /\ gameState' = InitialGameState
  /\ btnNewPlayDisabled' = FALSE
  /\ UNCHANGED <<db, plays, controlsDisabled, playSelectionActive, playsSelected,
                 historyModalActive, historyList, replay, boot, game, timeline,
                 machineVars, interpVars, pureVars, budget>>

\* btnHistory.onclick: the modal opens and lists the stored entries
OpenHistory ==
  /\ ~AlertShowing
  /\ ~controlsDisabled
  /\ ~historyModalActive
  /\ historyModalActive' = TRUE
  /\ historyList' = db
  /\ UNCHANGED <<gameState, db, plays, btnNewPlayDisabled, controlsDisabled,
                 playSelectionActive, playsSelected, newGamePending, replay,
                 boot, game, timeline, machineVars, interpVars, pureVars, budget>>

\* btnCloseHistory.onclick
CloseHistory ==
  /\ ~AlertShowing
  /\ historyModalActive
  /\ historyModalActive' = FALSE
  /\ historyList' = <<>>
  /\ UNCHANGED <<gameState, db, plays, btnNewPlayDisabled, controlsDisabled,
                 playSelectionActive, playsSelected, newGamePending, replay,
                 boot, game, timeline, machineVars, interpVars, pureVars, budget>>

\* btnClearHistory.onclick, the confirm dialog accepted
ClearHistory ==
  /\ ~AlertShowing
  /\ historyModalActive
  /\ db' = <<>>
  /\ historyList' = <<>>
  /\ UNCHANGED <<gameState, plays, btnNewPlayDisabled, controlsDisabled,
                 playSelectionActive, playsSelected, historyModalActive,
                 newGamePending, replay, boot, game, timeline, machineVars, interpVars, pureVars, budget>>

\* replayBtn.onclick -> loadHistoryEntry(entry) for the k-th listed entry;
\* a throw of loadSimulation ends the handler
LoadHistoryEntry(k) ==
  LET entry == historyList[k]
      shown == showResult(game, timeline, entry.result, TRUE)
  IN /\ ~AlertShowing
     /\ historyModalActive
     /\ historyModalActive' = FALSE
     /\ historyList' = <<>>
     /\ gameState' = entry.gameState
     /\ btnNewPlayDisabled' = hudNewPlayDisabled(entry.gameState, btnNewPlayDisabled)
     /\ game' = shown.game
     /\ timeline' = shown.timeline
     /\ UNCHANGED <<db, plays, controlsDisabled, playSelectionActive,
                    playsSelected, newGamePending, replay, boot, machineVars, interpVars, pureVars, budget>>

(***************************************************************************)
(* Replay All.                                                             *)
(***************************************************************************)
\* the tail of replayAllHistory: setHistoryPlaybackMode(false) and the call
\* of restoreGameFromHistory, which asks for the entries
replayExit == [pc |-> "restore", i |-> 0, entries |-> db, aborted |-> FALSE]

\* btnReplayAll.onclick -> replayAllHistory, up to await getAllEntries()
ReplayAllClick ==
  /\ ~AlertShowing
  /\ historyModalActive
  /\ replay.pc = "idle"
  /\ replay' = [pc |-> "fetch", i |-> 0, entries |-> db, aborted |-> FALSE]
  /\ UNCHANGED <<gameState, db, plays, btnNewPlayDisabled, controlsDisabled,
                 playSelectionActive, playsSelected, historyModalActive,
                 historyList, newGamePending, boot, game, timeline, machineVars, interpVars, pureVars, budget>>

\* the entries arrive: nothing to replay, or history-playback mode is entered,
\* the state reset and the first formation animation started
ReplayAllStart ==
  /\ ~AlertShowing
  /\ replay.pc = "fetch"
  /\ IF Len(replay.entries) = 0
     THEN /\ replay' = ReplayIdle
          /\ UNCHANGED <<gameState, btnNewPlayDisabled, controlsDisabled,
                         historyModalActive, historyList>>
     ELSE /\ replay' = [replay EXCEPT !.pc = "formation", !.i = 1]
          /\ historyModalActive' = FALSE
          /\ historyList' = <<>>
          /\ controlsDisabled' = TRUE
          /\ gameState' = InitialGameState
          /\ btnNewPlayDisabled' = FALSE
  /\ UNCHANGED <<db, plays, playSelectionActive, playsSelected, newGamePending,
                 boot, game, timeline, machineVars, interpVars, pureVars, budget>>

\* leaving the loop of replayAllHistory: the controls come back
ReplayLeave ==
  /\ replay' = replayExit
  /\ controlsDisabled' = FALSE
  /\ btnNewPlayDisabled' = FALSE

\* animateToFormation of entry i has ended
ReplayFormationDone ==
  /\ ~AlertShowing
  /\ replay.pc = "formation"
  /\ IF replay.aborted
     THEN ReplayLeave
     ELSE /\ replay' = [replay EXCEPT !.pc = "sleep300"]
          /\ UNCHANGED <<controlsDisabled, btnNewPlayDisabled>>
  /\ UNCHANGED <<gameState, db, plays, playSelectionActive, playsSelected,
                 historyModalActive, historyList, newGamePending, boot, game,
                 timeline, machineVars, interpVars, pureVars, budget>>

\* the pause after the formation has passed: the entry is loaded and played;
\* a throw of loadSimulation lands in the catch block
ReplayLoadEntry ==
  LET shown == showResult(game, timeline, replay.entries[replay.i].result, TRUE)
  IN /\ ~AlertShowing
     /\ replay.pc = "sleep300"
     /\ game' = shown.game
     /\ timeline' = shown.timeline
     /\ IF shown.threw
        THEN ReplayLeave
        ELSE /\ replay' = [replay EXCEPT !.pc = "playing"]
             /\ UNCHANGED <<controlsDisabled, btnNewPlayDisabled>>
     /\ UNCHANGED <<gameState, db, plays, playSelectionActive, playsSelected,
                    historyModalActive, historyList, newGamePending, boot,
                    machineVars, interpVars, pureVars, budget>>

\* waitForPlayToFinish resolves (the slider is within 0.1 s of its maximum):
\* updateGameStateFromReplay, updateHUD, then the pause before the next entry
\* or the closing pause
ReplayPlayFinished ==
  LET entry == replay.entries[replay.i]
      n == updateGameStateFromReplay(gameState, calculateYardsGainedFromEntry(entry),
                                     entry.result.outcome,
                                     effectiveTimeElapsed(entry.result))
  IN /\ ~AlertShowing
     /\ replay.pc = "playing"
     /\ timeline.value >= timeline.max - 1
     /\ gameState' = n
     /\ btnNewPlayDisabled' = hudNewPlayDisabled(n, btnNewPlayDisabled)
     /\ replay' = [replay EXCEPT !.pc = IF replay.i < Len(replay.entries)
                                        THEN "sleep1000" ELSE "final"]
     /\ UNCHANGED <<db, plays, controlsDisabled, playSelectionActive,
                    playsSelected, historyModalActive, historyList,
                    newGamePending, boot, game, timeline, machineVars, interpVars, pureVars, budget>>

\* the pause between two entries has passed
ReplayNextEntry ==
  /\ ~AlertShowing
  /\ replay.pc = "sleep1000"
  /\ replay' = [replay EXCEPT !.pc = "formation", !.i = @ + 1]
  /\ UNCHANGED <<gameState, db, plays, btnNewPlayDisabled, controlsDisabled,
                 playSelectionActive, playsSelected, historyModalActive,
                 historyList, newGamePending, boot, game, timeline, machineVars, interpVars, pureVars, budget>>

\* the closing pause has passed
ReplayFinalDone ==
  /\ ~AlertShowing
  /\ replay.pc = "final"
  /\ ReplayLeave
  /\ UNCHANGED <<gameState, db, plays, playSelectionActive, playsSelected,
                 historyModalActive, historyList, newGamePending, boot, game,
                 timeline, machineVars, interpVars, pureVars, budget>>

\* btnStopHistory.onclick: abort(); a pending abortable wait rejects at once
StopHistory ==
  /\ ~AlertShowing
  /\ replay.pc \in {"formation", "sleep300", "playing", "sleep1000", "final"}
  /\ IF replay.pc \in {"sleep300", "playing", "sleep1000"}
     THEN ReplayLeave
     ELSE /\ replay' = [replay EXCEPT !.aborted = TRUE]
          /\ UNCHANGED <<controlsDisabled, btnNewPlayDisabled>>
  /\ UNCHANGED <<gameState, db, plays, playSelectionActive, playsSelected,
                 historyModalActive, historyList, newGamePending, boot, game,
                 timeline, machineVars, interpVars, pureVars, budget>>

\* restoreGameFromHistory once its entries have arrived: what it does to
\* gameState, New Play, the engine and the slider
restoreEffects(entries) ==
  IF Len(entries) = 0
  THEN UNCHANGED <<gameState, btnNewPlayDisabled, game, timeline>>
  ELSE LET n == restoreGameFromHistory(gameState, entries)
           shown == showResult(game, timeline, entries[Len(entries)].result, FALSE)
       IN /\ gameState' = n
          /\ btnNewPlayDisabled' = hudNewPlayDisabled(n, FALSE)
          /\ game' = shown.game
          /\ timeline' = shown.timeline

\* the restoreGameFromHistory at the end of replayAllHistory
ReplayRestored ==
  /\ ~AlertShowing
  /\ replay.pc = "restore"
  /\ restoreEffects(replay.entries)
  /\ replay' = ReplayIdle
  /\ UNCHANGED <<db, plays, controlsDisabled, playSelectionActive, playsSelected,
                 historyModalActive, historyList, newGamePending, boot,
                 machineVars, interpVars, pureVars, budget>>

(***************************************************************************)
(* Page load.                                                              *)
(***************************************************************************)
\* the page is loaded again: the module state is initial, the store is kept,
\* and restoreGameFromHistory() asks for the entries
Reload ==
  /\ gameState' = InitialGameState
  /\ plays' = <<>>
  /\ btnNewPlayDisabled' = FALSE
  /\ controlsDisabled' = FALSE
  /\ playSelectionActive' = FALSE
  /\ playsSelected' = FALSE
  /\ historyModalActive' = FALSE
  /\ historyList' = <<>>
  /\ newGamePending' = FALSE
  /\ replay' = ReplayIdle
  /\ boot' = [pending |-> TRUE, entries |-> db]
  /\ game' = InitialGame
  /\ timeline' = InitialTimeline
  /\ UNCHANGED <<db, machineVars, interpVars, pureVars, budget>>

\* the restoreGameFromHistory of the page load
BootRestored ==
  /\ ~AlertShowing
  /\ boot.pending
  /\ restoreEffects(boot.entries)
  /\ boot' = [pending |-> FALSE, entries |-> <<>>]
  /\ UNCHANGED <<db, plays, controlsDisabled, playSelectionActive, playsSelected,
                 historyModalActive, historyList, newGamePending, replay,
                 machineVars, interpVars, pureVars, budget>>

(***************************************************************************)
(* Playback controls and the render loop.                                  *)
(***************************************************************************)
\* btnPlay.onclick
PlayClick ==
  /\ ~AlertShowing
  /\ ~controlsDisabled
  /\ game' = play(game)
  /\ UNCHANGED <<gameState, db, plays, btnNewPlayDisabled, controlsDisabled,
                 playSelectionActive, playsSelected, historyModalActive,
                 historyList, newGamePending, replay, boot, timeline, machineVars, interpVars, pureVars, budget>>

\* btnPause.onclick
PauseClick ==
  /\ ~AlertShowing
  /\ ~controlsDisabled
  /\ game' = pause(game)
  /\ UNCHANGED <<gameState, db, plays, btnNewPlayDisabled, controlsDisabled,
                 playSelectionActive, playsSelected, historyModalActive,
                 historyList, newGamePending, replay, boot, timeline, machineVars, interpVars, pureVars, budget>>

\* timeline.oninput: the slider is dragged to val; scrub, onTimeUpdate, pause.
\* On a simulation without frames applyFrame throws inside scrub, before
\* onTimeUpdate and pause are reached
Scrub(val) ==
  LET g == scrub(game, val)
      threw == /\ game.simulationData # NoSimulation
               /\ game.simulationData.lastTick = NoFrames
  IN /\ ~AlertShowing
     /\ ~controlsDisabled
     /\ val <= timeline.max
     /\ game' = IF threw THEN g ELSE pause(g)
     /\ timeline' = IF threw
                    THEN setTimelineValue(timeline, val)
                    ELSE setTimelineValue(setTimelineValue(timeline, val), g.playbackTime)
     /\ UNCHANGED <<gameState, db, plays, btnNewPlayDisabled, controlsDisabled,
                    playSelectionActive, playsSelected, historyModalActive,
                    historyList, newGamePending, replay, boot, machineVars, interpVars, pureVars, budget>>

\* a frame is rendered while a simulation plays: the update loop, with
\* onPlaybackComplete at the end of the play and onTimeUpdate; applyFrame
\* throws on a simulation without frames, before onTimeUpdate is reached
RenderTick ==
  LET g == renderUpdate(game, RenderDt)
  IN /\ ~AlertShowing
     /\ game.isPlaying
     /\ game.simulationData # NoSimulation
     /\ game' = g
     /\ timeline' = IF game.simulationData.lastTick = NoFrames
                    THEN timeline
                    ELSE setTimelineValue(timeline, g.playbackTime)
     /\ UNCHANGED <<gameState, db, plays, btnNewPlayDisabled, controlsDisabled,
                    playSelectionActive, playsSelected, historyModalActive,
                    historyList, newGamePending, replay, boot, machineVars, interpVars, pureVars, budget>>

(***************************************************************************)
(* Specifications of the application.                                      *)
(***************************************************************************)
\* the play handler
NextPlay ==
  \/ NewPlayClick
  \/ SelectPlay
  \/ ConfirmPlay
  \/ \E i \in 1..Len(plays) : FormationDone(i)
  \/ \E i \in 1..Len(plays) : SimulateResolve(i)
  \/ \E i \in 1..Len(plays) : SimulateReject(i)
  \/ \E i \in 1..Len(plays) : PersistDone(i)
  \/ \E i \in 1..Len(plays) : AlertDismiss(i)

SpecPlay == InitWith(MaxPlays, MaxVaried) /\ [][NextPlay]_vars

\* plays, New Game, the history modal and page loads
Next ==
  \/ NextPlay
  \/ NewGameConfirm
  \/ NewGameCleared
  \/ OpenHistory
  \/ CloseHistory
  \/ ClearHistory
  \/ \E k \in 1..Len(historyList) : LoadHistoryEntry(k)
  \/ Reload
  \/ BootRestored

Spec == InitWith(MaxAppPlays, MaxVaried) /\ [][Next]_vars

\* plays, the playback controls and the render loop
NextPlayback ==
  \/ NextPlay
  \/ PlayClick
  \/ PauseClick
  \/ \E val \in ScrubChoices : Scrub(val)
  \/ RenderTick

SpecPlayback == InitWith(MaxAppPlays, MaxAppPlays) /\ [][NextPlayback]_vars

\* the same with the render loop running (a frame is rendered as long as a
\* play is being played) and every alert dismissed by the user
SpecPlaythrough ==
  /\ SpecPlayback
  /\ WF_vars(RenderTick)
  /\ WF_vars(\E i \in 1..Len(plays) : AlertDismiss(i))

\* plays, the history modal, Replay All and the render loop
NextReplay ==
  \/ NextPlay
  \/ OpenHistory
  \/ CloseHistory
  \/ ReplayAllClick
  \/ ReplayAllStart
  \/ ReplayFormationDone
  \/ ReplayLoadEntry
  \/ ReplayPlayFinished
  \/ ReplayNextEntry
  \/ ReplayFinalDone
  \/ StopHistory
  \/ ReplayRestored
  \/ RenderTick

SpecReplay == InitWith(MaxAppPlays, MaxAppPlays) /\ [][NextReplay]_vars

\* the same with time passing: the awaited animations, timers and store
\* requests of replayAllHistory settle, frames keep being rendered while a
\* play is being played, and every alert is dismissed by the user
SpecReplayAll ==
  /\ SpecReplay
  /\ WF_vars(ReplayAllStart)
  /\ WF_vars(ReplayFormationDone)
  /\ WF_vars(ReplayLoadEntry)
  /\ WF_vars(ReplayPlayFinished)
  /\ WF_vars(ReplayNextEntry)
  /\ WF_vars(ReplayFinalDone)
  /\ WF_vars(ReplayRestored)
  /\ WF_vars(RenderTick)
  /\ WF_vars(\E i \in 1..Len(plays) : AlertDismiss(i))

(***************************************************************************)
(* expandKeyframes as a call and its return: the call records the          *)
(* keyframes handed over and the frames returned.                          *)
(***************************************************************************)
ExpandKeyframes ==
  /\ keyframes = <<>>
  /\ \E compressed \in KeyframeInputs :
       /\ keyframes' = compressed
       /\ frames' = expandKeyframes(compressed)
  /\ UNCHANGED <<gameState, db, uiVars, machineVars, budget, pureVars>>

ExpandReturn ==
  /\ keyframes # <<>>
  /\ keyframes' = <<>>
  /\ frames' = <<>>
  /\ UNCHANGED <<gameState, db, uiVars, machineVars, budget, pureVars>>

NextExpand ==
  \/ ExpandKeyframes
  \/ ExpandReturn

SpecExpand == Init /\ [][NextExpand]_vars

(***************************************************************************)
(* Calls of the pure functions: a call records its name and arguments and  *)
(* what it returned; the return clears both.                               *)
(***************************************************************************)
PureReturn ==
  /\ call # NoPureCall
  /\ call' = NoPureCall
  /\ returned' = NoPureCall
  /\ UNCHANGED <<gameState, db, uiVars, machineVars, budget, interpVars>>

\* headings and interpolation factors handed to lerpAngle
Headings == {10 * k : k \in 0..MaxHeadingTens}
Factors == {Whole(0), Rat(1, 2), Whole(1)}

CallLerpAngle ==
  /\ call = NoPureCall
  /\ \E a \in Headings, b \in Headings, t \in Factors :
       /\ call' = [fn |-> "lerpAngle", a |-> a, b |-> b, t |-> t]
       /\ returned' = [value |-> lerpAngle(a, b, t)]
  /\ UNCHANGED <<gameState, db, uiVars, machineVars, budget, interpVars>>

\* the playback engine on its own: load, play, pause, scrub and render
\* passes in any order; call records the last operation
EngineResults ==
  {[outcome |-> o, summary |-> NoYardsInSummary, timeElapsed |-> NoTimeElapsed,
    lastTick |-> n] : o \in {"tackle", "touchdown"}, n \in {NoFrames} \cup 0..MaxTick}
\* requested times, from below 0 to beyond the longest play
ScrubTimes == -1..(MaxTick + 1)
\* render passes of one and of two ticks
RenderDts == {RenderDt, 2 * RenderDt}

EngineLoad ==
  \E result \in EngineResults :
    /\ game' = loadSimulation(game, result).game
    /\ call' = [fn |-> "loadSimulation", result |-> result]
    /\ UNCHANGED <<gameState, db, plays, btnNewPlayDisabled, controlsDisabled,
                   playSelectionActive, playsSelected, historyModalActive,
                   historyList, newGamePending, replay, boot, timeline,
                   machineVars, interpVars, returned, budget>>

EnginePlay ==
  /\ game' = play(game)
  /\ call' = [fn |-> "play"]
  /\ UNCHANGED <<gameState, db, plays, btnNewPlayDisabled, controlsDisabled,
                 playSelectionActive, playsSelected, historyModalActive,
                 historyList, newGamePending, replay, boot, timeline,
                 machineVars, interpVars, returned, budget>>

EnginePause ==
  /\ game' = pause(game)
  /\ call' = [fn |-> "pause"]
  /\ UNCHANGED <<gameState, db, plays, btnNewPlayDisabled, controlsDisabled,
                 playSelectionActive, playsSelected, historyModalActive,
                 historyList, newGamePending, replay, boot, timeline,
                 machineVars, interpVars, returned, budget>>

EngineScrub ==
  \E time \in ScrubTimes :
    /\ game' = scrub(game, time)
    /\ call' = [fn |-> "scrub", time |-> time]
    /\ UNCHANGED <<gameState, db, plays, btnNewPlayDisabled, controlsDisabled,
                   playSelectionActive, playsSelected, historyModalActive,
                   historyList, newGamePending, replay, boot, timeline,
                   machineVars, interpVars, returned, budget>>

\* one pass of the update loop, whose body runs only while a loaded play is
\* being played
EngineRender ==
  \E dt \in RenderDts :
    /\ game.isPlaying
    /\ game.simulationData # NoSimulation
    /\ game' = renderUpdate(game, dt)
    /\ call' = [fn |-> "render", dt |-> dt]
    /\ UNCHANGED <<gameState, db, plays, btnNewPlayDisabled, controlsDisabled,
                   playSelectionActive, playsSelected, historyModalActive,
                   historyList, newGamePending, replay, boot, timeline,
                   machineVars, interpVars, returned, budget>>

NextEngine ==
  \/ EngineLoad
  \/ EnginePlay
  \/ EnginePause
  \/ EngineScrub
  \/ EngineRender

SpecEngine == Init /\ [][NextEngine]_vars

NextAngle ==
  \/ CallLerpAngle
  \/ PureReturn

SpecAngle == Init /\ [][NextAngle]_vars

CallUltraCompactToKeyframes ==
  /\ call = NoPureCall
  /\ \E data \in UltraCompactInputs :
       /\ call' = [fn |-> "ultraCompactToKeyframes", data |-> data]
       /\ returned' = [value |-> ultraCompactToKeyframes(data)]
  /\ UNCHANGED <<gameState, db, uiVars, machineVars, budget, interpVars>>

NextAdapter ==
  \/ CallUltraCompactToKeyframes
  \/ PureReturn

SpecAdapter == Init /\ [][NextAdapter]_vars

\* expandToKeyframes on its own
CallExpandToKeyframes ==
  /\ call = NoPureCall
  /\ \E data \in UltraCompactInputs :
       /\ call' = [fn |-> "expandToKeyframes", data |-> data]
       /\ returned' = expandToKeyframes(data)
  /\ UNCHANGED <<gameState, db, uiVars, machineVars, budget, interpVars>>

NextWaypoints ==
  \/ CallExpandToKeyframes
  \/ PureReturn

SpecWaypoints == Init /\ [][NextWaypoints]_vars

\* decodeUltraCompact(encodeUltraCompact(p))
CallRoundTrip ==
  /\ call = NoPureCall
  /\ \E p \in CodecInputs :
       /\ call' = [fn |-> "roundTrip", p |-> p, encoded |-> encodeUltraCompact(p)]
       /\ returned' = decodeUltraCompact(encodeUltraCompact(p))
  /\ UNCHANGED <<gameState, db, uiVars, machineVars, budget, interpVars>>

NextCodec ==
  \/ CallRoundTrip
  \/ PureReturn

SpecCodec == Init /\ [][NextCodec]_vars

\* sanitizeCompressedSimulation(x), and sanitizeCompressedSimulation of what
\* it returned
CallSanitize ==
  /\ call = NoPureCall
  /\ \E x \in SanitizeInputs :
       LET once == sanitizeCompressedSimulation(x)
       IN /\ call' = [fn |-> "sanitize", x |-> x]
          /\ returned' = [once |-> once,
                          twice |-> IF once.threw THEN once
                                    ELSE sanitizeCompressedSimulation(once.data)]
  /\ UNCHANGED <<gameState, db, uiVars, machineVars, budget, interpVars>>

NextSanitize ==
  \/ CallSanitize
  \/ PureReturn

SpecSanitize == Init /\ [][NextSanitize]_vars

(***************************************************************************)
(* Claims.                                                                 *)
(***************************************************************************)
\* the play of the last transition call ends the half / ends the game
EndsHalf == prev.quarter = 2 /\ prev.timeRemaining - last.t <= 0
EndsGame == prev.quarter >= 4 /\ prev.timeRemaining - last.t <= 0
Called == last.op = "updateGameState"

\* C1: replaying the first k log entries from the canonical initial state
\* yields the live state after play k (the snapshot stored in entry k), for
\* every k.
C1_ReplayEqualsLive ==
  \A k \in 1..Len(db) :
    restoreGameFromHistory(InitialGameState, SubSeq(db, 1, k)) = db[k].gameState

\* C2: a play whose elapsed time ends quarter 2 sets quarter 3, 300 seconds,
\* the other side's ball at the 25, 1st and 10, and nothing else of the play
\* is applied.
C2_HalftimeSkipsPlay ==
  (Called /\ EndsHalf) =>
    gameState = [prev EXCEPT !.quarter = 3, !.timeRemaining = 300,
                             !.possession = Other(prev.possession),
                             !.ballPosition = 25, !.down = 1, !.yardsToGo = 10]

\* C3: a transition call made in quarter 5 leaves every MatchState field
\* unchanged, whatever its yardsGained, outcome and elapsedSeconds >= 0.
C3_QuarterFiveAbsorbing ==
  (Called /\ prev.quarter = 5) => gameState = prev

C3_Witness ==
  /\ Called /\ prev.quarter = 5 /\ last.o = "touchdown" /\ last.t = 0
  /\ gameState.quarter = 5

\* C4: once the match is in quarter 5 the New Play control is disabled, and
\* it stays disabled for as long as the match stays in quarter 5.
C4_FinalDisablesNewPlay ==
  gameState.quarter = 5 => btnNewPlayDisabled

\* C5: when a play handler is on its error path (its alert is showing),
\* MatchState and the persisted log are what they were when the play was
\* confirmed.
C5_FailureLeavesStateUntouched ==
  \A i \in 1..Len(plays) :
    plays[i].pc = "alert" => (gameState = plays[i].gs0 /\ db = plays[i].db0)

\* C6: at most one play handler is running, and until it applies its
\* transition MatchState is the one the play was confirmed on.
C6_OneTransitionInFlight ==
  /\ Len(plays) <= 1
  /\ \A i \in 1..Len(plays) :
       plays[i].pc \in {"formation", "simulate"} => gameState = plays[i].gs0

\* C7: whenever no play handler, no Replay All, no New Game and no page-load
\* restore is running, MatchState equals the replay of the persisted log from
\* the canonical initial state.
C7_LogIsSourceOfTruth ==
  (Len(plays) = 0 /\ replay.pc = "idle" /\ ~newGamePending /\ ~boot.pending)
    => gameState = restoreGameFromHistory(InitialGameState, db)

\* C8: a step changes MatchState only if it applies the transition of a play
\* handler, is the reset of a new game, is a page load or its reconstruction
\* from the log, or belongs to Replay All; no playback operation and no
\* viewing of a stored play changes it.
C8_OnlyTransitionChangesState ==
  [][gameState' # gameState =>
       \/ \E i \in 1..Len(plays) : SimulateResolve(i)
       \/ NewGameCleared
       \/ Reload
       \/ BootRestored
       \/ ReplayAllStart
       \/ ReplayPlayFinished
       \/ ReplayRestored]_vars

\* C9: a touchdown that does not end the half or the game adds 7 to the side
\* in possession and nothing to the other, and the other side gets the ball
\* at the 25, 1st and 10.
C9_Touchdown ==
  (Called /\ last.o = "touchdown" /\ ~EndsHalf /\ ~EndsGame) =>
    /\ gameState.homeScore = prev.homeScore + (IF prev.possession = "home" THEN 7 ELSE 0)
    /\ gameState.awayScore = prev.awayScore + (IF prev.possession = "away" THEN 7 ELSE 0)
    /\ gameState.possession = Other(prev.possession)
    /\ gameState.ballPosition = 25
    /\ gameState.down = 1
    /\ gameState.yardsToGo = 10

C9_Witness ==
  /\ Called /\ last.o = "touchdown" /\ last.y = 10 /\ ~EndsHalf /\ ~EndsGame
  /\ prev.ballPosition = 95 /\ prev.possession = "home" /\ prev.down = 3
  /\ gameState.homeScore = prev.homeScore + 7

\* C10: an interception or turnover that does not end the half or the game
\* flips possession, mirrors the ball to 100 minus its position, gives 1st
\* and 10 and changes neither score; yardsGained plays no part.
C10_Turnover ==
  (Called /\ last.o \in {"interception", "turnover"} /\ ~EndsHalf /\ ~EndsGame) =>
    /\ gameState.possession = Other(prev.possession)
    /\ gameState.ballPosition = 100 - prev.ballPosition
    /\ gameState.down = 1
    /\ gameState.yardsToGo = 10
    /\ gameState.homeScore = prev.homeScore
    /\ gameState.awayScore = prev.awayScore

C10_Witness ==
  /\ Called /\ last.o = "interception" /\ last.y = 80 /\ ~EndsHalf /\ ~EndsGame
  /\ prev.ballPosition = 70 /\ gameState.ballPosition = 30

\* the play of the last transition call is handled by the normal-play branch:
\* tackle or incomplete, not promoted at the goal line, half and game go on
NormalPlayCalled ==
  /\ Called /\ ~EndsHalf /\ ~EndsGame
  /\ last.o \in {"tackle", "incomplete"}
  /\ ~(last.o = "tackle" /\ prev.ballPosition + last.y >= 100)

\* what a normal play does to the ball, the down and the distance when it is
\* not a failed 4th down
NormalPlayAdvance ==
  /\ gameState.ballPosition = Max(1, Min(99, prev.ballPosition + last.y))
  /\ gameState.homeScore = prev.homeScore
  /\ gameState.awayScore = prev.awayScore
  /\ IF last.y >= prev.yardsToGo
     THEN gameState.down = 1 /\ gameState.yardsToGo = 10
     ELSE gameState.down = prev.down + 1 /\ gameState.yardsToGo = prev.yardsToGo - last.y

\* C11 as stated: a normal play that does not end the half or the game and
\* does not reach the goal line moves the ball by yardsGained clamped to
\* [1, 99], changes no score, and gives 1st and 10 if yardsGained >= yardsToGo,
\* else yardsToGo - yardsGained and the next down; on every down.
C11_NormalPlay_AsStated ==
  NormalPlayCalled => NormalPlayAdvance

\* C11: the same for a play that is not a failed conversion on 4th down (the
\* failed 4th down is the turnover on downs of C12).
C11_NormalPlay ==
  (NormalPlayCalled /\ ~(prev.down = 4 /\ last.y < prev.yardsToGo)) => NormalPlayAdvance

C11_Witness ==
  /\ NormalPlayCalled /\ last.o = "tackle" /\ last.y = -10
  /\ prev.ballPosition = 5 /\ prev.down = 2
  /\ gameState.ballPosition = 1 /\ gameState.down = 3
  /\ gameState.yardsToGo = prev.yardsToGo + 10

C14_StateInDomain ==
  /\ gameState.down \in 1..4
  /\ gameState.ballPosition \in 0..100
  /\ gameState.possession \in {"home", "away"}
  /\ gameState.quarter \in 1..5
  /\ gameState.timeRemaining >= 0

C14_Witness ==
  /\ Called /\ prev.quarter = 4 /\ prev.down = 4 /\ prev.ballPosition = 1
  /\ last.y = -10 /\ last.t = 300
  /\ gameState.quarter = 5 /\ gameState.timeRemaining = 0

\* the call of expandKeyframes has returned the frames of a non-empty input
Expanded == keyframes # <<>>
\* the smallest and the largest tick of the input keyframes
firstTick == CHOOSE t \in {keyframes[i].t : i \in 1..Len(keyframes)} :
               \A i \in 1..Len(keyframes) : t <= keyframes[i].t
lastTick == CHOOSE t \in {keyframes[i].t : i \in 1..Len(keyframes)} :
              \A i \in 1..Len(keyframes) : t >= keyframes[i].t

\* C15: for a non-empty input, expandKeyframes returns exactly
\* lastTick - firstTick + 1 frames, and their ticks are consecutive and
\* ascending from firstTick.
C15_FrameCount ==
  Expanded =>
    /\ Len(frames) = lastTick - firstTick + 1
    /\ \A k \in 1..Len(frames) : frames[k].tick = firstTick + k - 1

\* keyframes handed over out of order, ticks 3 and 0: four frames
C15_Witness ==
  /\ Len(keyframes) = 2
  /\ keyframes[1].t = 3
  /\ keyframes[2].t = 0
  /\ Len(frames) = 4
  /\ frames[4].tick = 3

\* the ids of the actors listed in some input keyframe
actorsOfInput ==
  UNION {{keyframes[i].p[j][1] : j \in 1..Len(keyframes[i].p)} : i \in 1..Len(keyframes)}
\* the ids of the entries of an output frame
actorsOfFrame(frame) == {frame.players[j].id : j \in 1..Len(frame.players)}

\* C16: every actor that appears in any input keyframe has an entry in every
\* output frame.
C16_EveryActorInEveryFrame ==
  Expanded => \A k \in 1..Len(frames) : actorsOfInput \subseteq actorsOfFrame(frames[k])

\* the first keyframe, in input order, whose tick is tick
firstKeyframeAt(tick) ==
  keyframes[CHOOSE i \in 1..Len(keyframes) :
              /\ keyframes[i].t = tick
              /\ \A j \in 1..Len(keyframes) : keyframes[j].t = tick => i <= j]
\* the output frame of a tick between firstTick and lastTick
frameOfTick(tick) == frames[tick - firstTick + 1]
\* the frame has the keyframe's ball position and, for each actor listed in
\* the keyframe, that actor's position, heading and animation label
carriesValues(frame, kf) ==
  /\ frame.ball = <<Whole(kf.b[1]), Whole(kf.b[2]), Whole(kf.b[3])>>
  /\ \A j \in 1..Len(kf.p) :
       \E m \in 1..Len(frame.players) :
         frame.players[m] = [id |-> kf.p[j][1], x |-> Whole(kf.p[j][2]),
                             z |-> Whole(kf.p[j][3]), rotation |-> Whole(kf.p[j][4]),
                             animation |-> kf.p[j][5]]
\* two input keyframes have the same tick
DuplicateTicks ==
  \E i, j \in 1..Len(keyframes) : i # j /\ keyframes[i].t = keyframes[j].t

\* C17: input with several keyframes of the same tick is accepted, and the
\* output frame at a tick takes its ball position, actor poses and events
\* from the first keyframe, in input order, that has this tick.
C17_EarliestDuplicateWins ==
  Expanded =>
    \A i \in 1..Len(keyframes) :
      /\ carriesValues(frameOfTick(keyframes[i].t), firstKeyframeAt(keyframes[i].t))
      /\ frameOfTick(keyframes[i].t).events = firstKeyframeAt(keyframes[i].t).e

\* C18: a frame carries events only if its tick is the tick of an input
\* keyframe that declared events, and then it carries exactly the events of
\* such a keyframe; a frame whose tick is no keyframe's tick has no events.
C18_EventsOnlyOnKeyframeTicks ==
  Expanded =>
    \A k \in 1..Len(frames) :
      /\ frames[k].events # <<>> =>
           \E i \in 1..Len(keyframes) :
             /\ keyframes[i].t = frames[k].tick
             /\ keyframes[i].e # <<>>
             /\ frames[k].events = keyframes[i].e
      /\ (\A i \in 1..Len(keyframes) : keyframes[i].t # frames[k].tick) =>
           frames[k].events = <<>>

\* keyframes at ticks 0 and 2, both declaring events: the frames at 0 and 2
\* carry them, the frame at tick 1 carries none
C18_Witness ==
  /\ Len(keyframes) = 2
  /\ keyframes[1].t = 0
  /\ keyframes[2].t = 2
  /\ keyframes[1].e = <<"snap">>
  /\ keyframes[2].e = <<"snap">>
  /\ Len(frames) = 3
  /\ frames[1].events = <<"snap">>
  /\ frames[2].events = <<>>
  /\ frames[3].events = <<"snap">>

\* C19: for keyframes with distinct ticks, the frame at each keyframe's tick
\* has that keyframe's ball position and, for each actor the keyframe lists,
\* that actor's position, heading and animation label unchanged; one keyframe
\* alone gives exactly one frame, with the keyframe's tick, ball, actors in
\* their order and events.
C19_PassesThroughKeyframes ==
  (Expanded /\ ~DuplicateTicks) =>
    /\ \A i \in 1..Len(keyframes) :
         carriesValues(frameOfTick(keyframes[i].t), keyframes[i])
    /\ Len(keyframes) = 1 =>
         /\ Len(frames) = 1
         /\ frames[1].tick = keyframes[1].t
         /\ frames[1].events = keyframes[1].e
         /\ Len(frames[1].players) = Len(keyframes[1].p)
         /\ \A j \in 1..Len(keyframes[1].p) :
              frames[1].players[j].id = keyframes[1].p[j][1]

\* keyframes at ticks 2 and 0 with different values: the frame at tick 0 has
\* the values of the second keyframe, the frame at tick 2 those of the first,
\* and the frame between them lies between
C19_Witness ==
  /\ Len(keyframes) = 2
  /\ keyframes[1] = keyframeOf(2, <<"off_1">>, "run")
  /\ keyframes[2] = keyframeOf(0, <<"off_1">>, "set")
  /\ Len(frames) = 3
  /\ frames[1].ball = <<Whole(0), Whole(0), Whole(0)>>
  /\ frames[2].ball = <<Whole(0), Rat(1, 2), Whole(2)>>
  /\ frames[3].ball = <<Whole(0), Whole(1), Whole(4)>>
  /\ frames[3].players[1] = [id |-> "off_1", x |-> Whole(4), z |-> Whole(2),
                             rotation |-> Whole(350), animation |-> "sprint"]

\* the label the frame's entry of an actor must have: with before and after
\* the keyframes around the frame's tick and t the interpolation factor, the
\* label of before when t < 1/2 and of after when t >= 1/2, an actor listed
\* in only one of the two taking the label it has there
labelRule(frame, entry) ==
  LET s == findSurroundingKeyframes(sortByTick(keyframes), frame.tick)
      inBefore == findPlayer(s.before, entry.id)
      inAfter == findPlayer(s.after, entry.id)
  IN /\ inBefore # NoPlayer \/ inAfter # NoPlayer
     /\ (inBefore # NoPlayer /\ inAfter # NoPlayer) =>
          entry.animation = IF 2 * s.t.n < s.t.d THEN s.before.p[inBefore][5]
                            ELSE s.after.p[inAfter][5]
     /\ inBefore = NoPlayer => entry.animation = s.after.p[inAfter][5]
     /\ inAfter = NoPlayer => entry.animation = s.before.p[inBefore][5]

\* C20: in every output frame the animation label of every actor is the
\* label of the "before" keyframe when the interpolation factor t < 0.5 and
\* the label of the "after" keyframe when t >= 0.5, the midpoint included; it
\* is always one of the two keyframe labels.
C20_AnimationLabel ==
  Expanded =>
    \A k \in 1..Len(frames) :
      \A m \in 1..Len(frames[k].players) :
        labelRule(frames[k], frames[k].players[m])

\* keyframes at ticks 0 ("idle") and 2 ("sprint"): the frame at tick 1 is at
\* the midpoint and has the label of the keyframe after it
C20_Witness ==
  /\ Len(keyframes) = 2
  /\ keyframes[1] = keyframeOf(0, <<"off_1">>, "set")
  /\ keyframes[2] = keyframeOf(2, <<"off_1">>, "run")
  /\ Len(frames) = 3
  /\ frames[1].players[1].animation = "idle"
  /\ frames[2].players[1].animation = "sprint"
  /\ frames[2].players[1].x = Whole(2)

\* C21: the heading lerpAngle returns for a, b and t is a + d * t, where d is
\* the difference congruent to b - a modulo 360 with -180 < d <= 180.
C21_WrappedDifference ==
  call.fn = "lerpAngle" =>
    \E d \in -179..180 :
      /\ (d - (call.b - call.a)) % 360 = 0
      /\ returned.value = Rat(call.a * call.t.d + d * call.t.n, call.t.d)

\* the input keyframes in another order
reordered(perm) == [i \in 1..Len(keyframes) |-> keyframes[perm[i]]]
\* the input keyframes came in ascending order of tick
Ascending == \A i \in 1..(Len(keyframes) - 1) : keyframes[i].t < keyframes[i + 1].t

\* C22: for keyframes with distinct ticks, expandKeyframes returns the same
\* frames for every order in which the same keyframes are handed over: the
\* frames of every reordering are the frames of the ascending order.
C22_OrderIndependent ==
  (Expanded /\ Ascending) =>
    \A perm \in Permutations(1..Len(keyframes)) :
      expandKeyframes(reordered(perm)) = frames

\* three keyframes with ticks 0, 1, 3 and different values: handed over in
\* the order 3, 0, 1 they give the same four frames
C22_Witness ==
  /\ Len(keyframes) = 3
  /\ keyframes[1] = keyframeOf(0, <<"off_1">>, "set")
  /\ keyframes[2] = keyframeOf(1, <<"off_1">>, "run")
  /\ keyframes[3] = keyframeOf(3, <<"off_1", "off_2">>, "run")
  /\ Len(frames) = 4
  /\ frames = expandKeyframes(<<keyframes[3], keyframes[1], keyframes[2]>>)
  /\ frames[3].ball = <<Whole(0), Whole(1), Whole(4)>>

\* a play handler read the last frame of a result without frames: its
\* loadSimulation threw after the transition and the log write
ZeroFramesLoaded(i) ==
  /\ plays[i].pc = "alert"
  /\ plays[i].persisted
  /\ plays[i].entry.result.lastTick = NoFrames

\* C23: a play result with zero frames never reaches loadSimulation or the
\* timeline maximum, so no play handler fails on it after MatchState was
\* updated.
C23_ZeroFramesGuarded ==
  \A i \in 1..Len(plays) : ~ZeroFramesLoaded(i)

\* the adapter has returned the keyframes of a waypoint play
AdapterCalled == call.fn = "ultraCompactToKeyframes"

\* C24: for a ball path of N in {2, 3, 4} points and a positive elapsed time
\* the adapter returns exactly N keyframes, keyframe i at tick
\* round(i / (N - 1) * totalTicks) with totalTicks = round(seconds * 0.75 * 10),
\* the first at tick 0, the last at totalTicks, and the ticks strictly
\* increasing.
C24_KeyframeInvariant ==
  (AdapterCalled /\ Len(call.data.ballPath) \in {2, 3, 4}) =>
    LET kfs == returned.value.keyframes
        N == Len(call.data.ballPath)
        totalTicks == (6 * call.data.timeElapsed + 4) \div 8
    IN /\ Len(kfs) = N
       /\ kfs[1].t = 0
       /\ kfs[N].t = totalTicks
       /\ \A i \in 0..(N - 1) :
            kfs[i + 1].t = (2 * i * totalTicks + (N - 1)) \div (2 * (N - 1))
       /\ \A i, j \in 1..N : i < j => kfs[i].t < kfs[j].t

\* the tuple of actor a in output keyframe i (0-based), and the tuple the
\* adapter makes of waypoint number index (0-based) of that actor
placedAt(i, a) == returned.value.keyframes[i + 1].p[a]
tupleOfWaypoint(a, index) ==
  LET path == call.data.playerPaths[a]
      waypoint == path.waypoints[index + 1]
  IN <<path.id, waypoint.x, waypoint.z, waypoint.rotation, waypoint.animation>>

\* C25: in output keyframe i of N an actor with M waypoints is placed at its
\* waypoint min(round(i / (N - 1) * (M - 1)), M - 1): waypoint 0 in the first
\* keyframe, waypoint M - 1 in the last, never an earlier waypoint than in the
\* keyframe before, waypoint 0 everywhere when M = 1; and every keyframe has
\* exactly one entry per actor, in the actors' order.
C25_WaypointPlacement ==
  AdapterCalled =>
    LET N == Len(call.data.ballPath)
        actors == 1..Len(call.data.playerPaths)
        M(a) == Len(call.data.playerPaths[a].waypoints)
        index(i, a) ==
          Min((2 * i * (M(a) - 1) + (N - 1)) \div (2 * (N - 1)), M(a) - 1)
    IN \A i \in 0..(N - 1) :
         /\ Len(returned.value.keyframes[i + 1].p) = Len(call.data.playerPaths)
         /\ \A a \in actors :
              /\ placedAt(i, a) = tupleOfWaypoint(a, index(i, a))
              /\ i = 0 => placedAt(i, a) = tupleOfWaypoint(a, 0)
              /\ i = N - 1 => placedAt(i, a) = tupleOfWaypoint(a, M(a) - 1)
              /\ M(a) = 1 => placedAt(i, a) = tupleOfWaypoint(a, 0)
              /\ i > 0 => placedAt(i, a)[3] >= placedAt(i - 1, a)[3]

\* four keyframes, an actor with one waypoint and an actor with three: the
\* second is at its waypoints 0, 1, 1, 2
C25_Witness ==
  /\ AdapterCalled
  /\ Len(call.data.ballPath) = 4
  /\ Len(call.data.playerPaths) = 2
  /\ Len(call.data.playerPaths[1].waypoints) = 1
  /\ Len(call.data.playerPaths[2].waypoints) = 3
  /\ placedAt(0, 2) = tupleOfWaypoint(2, 0)
  /\ placedAt(1, 2) = tupleOfWaypoint(2, 1)
  /\ placedAt(2, 2) = tupleOfWaypoint(2, 1)
  /\ placedAt(3, 2) = tupleOfWaypoint(2, 2)
  /\ placedAt(3, 1) = tupleOfWaypoint(1, 0)

\* the codec decoded what it had encoded
RoundTripped == call.fn = "roundTrip"

\* C26: for every play p, decode(encode(p)) succeeds and has p's outcome,
\* summary and event list.
C26_RoundTripExact ==
  RoundTripped =>
    /\ ~returned.threw
    /\ returned.outcome = call.p.outcome
    /\ returned.summary = call.p.summary
    /\ returned.events = call.p.events

\* |a - b| <= tolerance
within(a, b, tolerance) == a - b <= tolerance /\ b - a <= tolerance

\* C27: for every play p, each ball and actor coordinate of decode(encode(p))
\* is within 0.1 of the original and each actor heading within 1 degree of
\* the original, whatever the heading.
C27_RoundTripNumeric ==
  RoundTripped =>
    /\ ~returned.threw
    /\ \A k \in 1..Len(call.p.ballPath) : \A c \in 1..3 :
         within(10 * returned.ballPath[k][c], call.p.ballPath[k][c], 10)
    /\ \A a \in 1..Len(call.p.playerPaths) :
         \A k \in 1..Len(call.p.playerPaths[a].waypoints) :
           LET original == call.p.playerPaths[a].waypoints[k]
               decoded == returned.playerPaths[a].waypoints[k]
           IN /\ within(10 * decoded.x, original.x, 10)
              /\ within(10 * decoded.z, original.z, 10)
              /\ within(10 * decoded.rotation, original.rotation, 10)

\* the sanitizer has been applied to a model answer, and again to its result
Sanitized == call.fn = "sanitize"
\* the animation label of the player of keyframe k
labelIn(data, k) == data.keyframes[k].p[1][5]

\* C28: after sanitize the outcome is one of the five outcomes and every
\* animation label of every keyframe is one of the eight labels; an outcome
\* or label that already was one of them is unchanged.
C28_ClosedVocabularies ==
  Sanitized =>
    /\ ~returned.once.threw
    /\ returned.once.data.outcome \in validOutcomes
    /\ call.x.outcome \in validOutcomes => returned.once.data.outcome = call.x.outcome
    /\ \A k \in 1..Len(call.x.keyframes) :
         /\ labelIn(returned.once.data, k) \in validAnimations
         /\ labelIn(call.x, k) \in validAnimations =>
              labelIn(returned.once.data, k) = labelIn(call.x, k)

\* C29: sanitize is idempotent: sanitizing the result of sanitize succeeds and
\* returns that result unchanged.
C29_SanitizeIdempotent ==
  Sanitized =>
    /\ ~returned.once.threw
    /\ ~returned.twice.threw
    /\ returned.twice.data = returned.once.data

\* C30: an outcome that is not one of the five is repaired by its synonyms,
\* whatever the case of its letters: containing "drop" or "miss" it becomes
\* incomplete, "pick" or "intercept" interception, "fumble" turnover, "sack"
\* or "loss" tackle, "td" or "score" touchdown, and tackle when it contains
\* none of them.
C30_OutcomeSynonyms ==
  (Sanitized /\ call.x.outcome \notin validOutcomes /\ ~returned.once.threw) =>
    LET lower == toLowerCase(call.x.outcome)
        has(word) == includes(lower, word)
        repaired == returned.once.data.outcome
    IN /\ (has("drop") \/ has("miss")) => repaired = "incomplete"
       /\ (has("pick") \/ has("intercept")) => repaired = "interception"
       /\ has("fumble") => repaired = "turnover"
       /\ (has("sack") \/ has("loss")) => repaired = "tackle"
       /\ (has("td") \/ has("score")) => repaired = "touchdown"
       /\ ~(has("drop") \/ has("miss") \/ has("pick") \/ has("intercept")
              \/ has("fumble") \/ has("sack") \/ has("loss") \/ has("td")
              \/ has("score")) => repaired = "tackle"

(***************************************************************************)
(* Playback to the end of the play.                                        *)
(***************************************************************************)
\* a loaded play is being played
Playing == game.isPlaying /\ game.simulationData # NoSimulation

\* playback has stopped at the end of the play and has reported it once
PlayedThrough ==
  /\ ~game.isPlaying
  /\ game.playbackTime = game.totalDuration
  /\ game.completed = [count |-> 1, outcome |-> game.simulationData.outcome]

\* a pause, a scrub or a load
Intervention ==
  \/ PauseClick
  \/ \E val \in ScrubChoices : Scrub(val)
  \/ \E i \in 1..Len(plays) : PersistDone(i) /\ plays[i].persisted

\* C31: the completion callback is invoked at most once after play() is
\* called; while a loaded play is being played, a step that changes the
\* engine and is no pause, scrub or load either advances playbackTime with
\* the play still being played or leaves it played through (stopped,
\* playbackTime = totalDuration, the callback invoked exactly once, with the
\* outcome of the loaded play); and playback does not stay at any time for
\* ever, provided frames keep being rendered and alerts are dismissed
C31_PlaysThrough ==
  /\ [](game.completed.count <= 1)
  /\ [][(Playing /\ game' # game /\ ~Intervention) =>
          \/ Playing' /\ game'.playbackTime > game.playbackTime
          \/ PlayedThrough']_vars
  /\ \A t \in 0..LastTick :
       (Playing /\ game.playbackTime = t) ~> ~(Playing /\ game.playbackTime = t)

\* a play of more than one render pass has been played through
C31_Witness ==
  /\ PlayedThrough
  /\ game.totalDuration > RenderDt
  /\ game.simulationData.outcome = "touchdown"

\* C32: updateGameStateFromReplay computes the state the live updateGameState
\* computes, from every state and for every yardsGained, outcome and elapsed
\* time
C32_ReplayTransitionEqualsLive ==
  Called =>
    updateGameStateFromReplay(prev, last.y, last.o, last.t) = gameState

\* what the last transition added to each side's score
scored(side) ==
  IF side = "home" THEN gameState.homeScore - prev.homeScore
                   ELSE gameState.awayScore - prev.awayScore

\* C33: a transition changes at most one score, by exactly +7, only when the
\* play is a touchdown (reported, or promoted at the goal line), and in
\* favour of the side that had possession when the play started; no score
\* decreases
C33_ScoreChange ==
  Called =>
    /\ scored("home") \in {0, 7}
    /\ scored("away") \in {0, 7}
    /\ scored("home") = 0 \/ scored("away") = 0
    /\ \A side \in {"home", "away"} :
         scored(side) # 0 =>
           /\ promoteOutcome(prev, last.y, last.o) = "touchdown"
           /\ side = prev.possession

\* C34: after a transition with elapsed time > 0, timeRemaining is in 1..300
\* when quarter <= 4, and is 0 exactly when quarter = 5; the quarter does not
\* decrease and rises by at most 1, the time left over from an expired
\* quarter not being carried into the next
C34_ClockAndQuarter ==
  (Called /\ last.t > 0) =>
    /\ gameState.quarter <= 4 =>
         (0 < gameState.timeRemaining /\ gameState.timeRemaining <= 300)
    /\ gameState.timeRemaining = 0 <=> gameState.quarter = 5
    /\ prev.quarter <= gameState.quarter
    /\ gameState.quarter <= prev.quarter + 1
    /\ (prev.timeRemaining - last.t <= 0 /\ gameState.quarter <= 4) =>
         gameState.timeRemaining = 300

\* a play longer than the time left in its quarter has been applied
C34_Witness ==
  /\ Called
  /\ prev.quarter = 1
  /\ prev.timeRemaining = 150
  /\ last.t = 300
  /\ gameState.quarter = 2
  /\ gameState.timeRemaining = 300

\* the game clock still to be played: the seconds left in this quarter and
\* in the quarters after it
secondsLeft(gs) ==
  IF gs.quarter > 4 THEN 0 ELSE (4 - gs.quarter) * 300 + gs.timeRemaining

\* elapsed times of at least 1 second: the shortest, and the default of a
\* result that gives none
PlaySeconds == {1, effectiveTimeElapsed(Routine)}

\* C35: the clock still to be played is at most 4 * 300 seconds and is 0
\* exactly in quarter 5; every play of at least 1 second applied before
\* quarter 5 lowers it by at least 1 second, whatever its outcome and yards
\* (so a match of whole-second plays is over after at most 4 * 300 plays)
C35_MatchEnds ==
  /\ secondsLeft(gameState) <= 4 * 300
  /\ secondsLeft(gameState) = 0 <=> gameState.quarter = 5
  /\ (Called /\ last.t >= 1 /\ prev.quarter <= 4) =>
       secondsLeft(gameState) <= secondsLeft(prev) - 1
  /\ gameState.quarter <= 4 =>
       \A o \in Outcomes, t \in PlaySeconds :
         secondsLeft(updateGameState(gameState, 10, o, t)) <= secondsLeft(gameState) - 1

\* the play that ends the match has been applied
C35_Witness ==
  /\ Called
  /\ last.t >= 1
  /\ prev.quarter = 4
  /\ gameState.quarter = 5
  /\ secondsLeft(gameState) = 0

\* the last transition started a new series: it was a halftime flip, a
\* touchdown, a turnover, a first down or a turnover on downs
NewSeries ==
  LET c == clockStep(prev, last.t)
      outcome == promoteOutcome(c.gs, last.y, last.o)
  IN /\ Called
     /\ ~c.returned
     /\ \/ EndsHalf
        \/ outcome \in {"touchdown", "interception", "turnover"}
        \/ last.y >= c.gs.yardsToGo
        \/ c.gs.down = 4

\* C36: after every transition from the canonical initial state yardsToGo is
\* at least 1, and it is 10 with down 1 after a transition that was a first
\* down, a touchdown, a turnover, a turnover on downs or a halftime flip
C36_YardsToGo ==
  /\ gameState.yardsToGo >= 1
  /\ NewSeries => (gameState.yardsToGo = 10 /\ gameState.down = 1)

\* history-playback mode: between setHistoryPlaybackMode(true) and
\* setHistoryPlaybackMode(false)
HistoryPlaybackMode ==
  replay.pc \in {"formation", "sleep300", "playing", "sleep1000", "final"}

\* C37: once Replay All has entered history-playback mode the mode is
\* eventually left with the controls enabled again, and when the
\* restoreGameFromHistory that ends Replay All has run, MatchState is the
\* replay of the whole persisted log from the canonical initial state
C37_ReplayAllExits ==
  /\ [][ReplayRestored =>
          (/\ ~controlsDisabled'
           /\ gameState' = restoreGameFromHistory(InitialGameState, db'))]_vars
  /\ (HistoryPlaybackMode ~> (~HistoryPlaybackMode /\ ~controlsDisabled))

\* C38: after any sequence of load, play, pause, scrub and render passes,
\* 0 <= playbackTime <= totalDuration, and isPlaying only while a simulation
\* is loaded; scrub leaves playbackTime at the requested time clamped into
\* that range, and load leaves the playback paused at time 0
C38_PlaybackInRange ==
  /\ 0 <= game.playbackTime
  /\ game.playbackTime <= game.totalDuration
  /\ game.isPlaying => game.simulationData # NoSimulation
  /\ call.fn = "scrub" =>
       game.playbackTime =
         (IF call.time < 0 THEN 0
          ELSE IF call.time > game.totalDuration THEN game.totalDuration
          ELSE call.time)
  /\ call.fn = "loadSimulation" => (~game.isPlaying /\ game.playbackTime = 0)

\* a play of MaxTick ticks that was being played has been scrubbed beyond its
\* end
C38_Witness ==
  /\ call.fn = "scrub"
  /\ call.time > game.totalDuration
  /\ game.totalDuration = MaxTick
  /\ game.isPlaying
  /\ game.playbackTime = game.totalDuration

\* C39: for a waypoint play, expandToKeyframes returns the keyframes that
\* ultraCompactToKeyframes returns: the same ticks, ball positions, actor
\* entries (the final waypoint of every actor in the final keyframe) and
\* events
C39_SameKeyframes ==
  call.fn = "expandToKeyframes" =>
    /\ ~returned.threw
    /\ returned.keyframes = ultraCompactToKeyframes(call.data).keyframes

=============================================================================
